---- MODULE Spec2Model ----
(***************************************************************************)
(* Claim-based backstory verification pipeline                             *)
(* (naman-agarwal-16/kharagpur_hackathon).                                 *)
(*                                                                         *)
(* Numbers.  Confidences are kept in units of 1/10000 (0.85 is 8500), so   *)
(* that every threshold and every heuristic confidence of the source is an *)
(* integer.  A mean confidence is kept as the pair (confidence, over): the *)
(* sum of the confidences and the number of claims it is divided by.       *)
(* Raw match scores are kept in tenths (0.5 is 5), adjusted scores         *)
(* (score * scene multiplier) in hundredths.                               *)
(*                                                                         *)
(* Text.  A piece of text is modelled by what the source asks of it: which *)
(* lower-case strings occur in it as substrings, how often each            *)
(* capitalised word occurs, and its length.                                *)
(***************************************************************************)
EXTENDS Integers, Sequences, FiniteSets, TLC

VARIABLES
    pc,                   \* position inside MasterPipeline.process_example
    cfg,                  \* provider configuration read at import time
    character,            \* row['char']: the character name, as its words
    backstory,            \* row['content']: the sentences of the backstory
    novel,                \* the novel of row['book_name']: found or not, its chunks
    extraction,           \* what the model call of claim extraction comes to
    claims,               \* the list ClaimDecomposer.decompose returned
    chunks,               \* NovelIngester.chunks (annotated)
    character_positions,  \* NovelIngester.character_positions
    i,                    \* index of the claim the loop is at (1-based)
    evidence,             \* the evidence dict of the current claim
    claim_verifications,  \* claim_verifications, as built by the loop
    cache,                \* CacheManager's llm_cache table (verify_ keys)
    result,               \* the dict process_example / batch_process returns
    raw_text,             \* NovelIngester.raw_text, as blocks of text
    ingests,              \* what each call of ingest returned (history)
    story_ids,            \* the story ids handed to batch_process
    results,              \* the results list batch_process builds
    entry,                \* the entry point running: batch_process or generate_submission
    ingesters,            \* MasterPipeline.ingesters: the index cached for a book
    builds,               \* the books ingested by the pipeline, in order (history)
    attempts              \* the model calls made for the request in hand (history)

\* the text side of a NovelIngester
ingester_vars == <<raw_text, ingests>>

\* the loop over the stories
batch_vars == <<story_ids, results, entry>>

\* the cache of ingested novels
index_vars == <<ingesters, builds>>

vars == <<pc, cfg, character, backstory, novel, extraction, claims, chunks,
          character_positions, i, evidence, claim_verifications, cache, result,
          ingester_vars, batch_vars, index_vars, attempts>>

-----------------------------------------------------------------------------
(* Units and thresholds *)

\* 1.0 as a confidence
UNIT == 10000

\* master_pipeline.py:184  confidence > 0.85
STRONG_CONTRA == 8500

\* master_pipeline.py:193  confidence > 0.9
SINGLE_CONTRA == 9000

Min(a, b) == IF a <= b THEN a ELSE b

Max(a, b) == IF a >= b THEN a ELSE b

Abs(a) == IF a >= 0 THEN a ELSE -a

RECURSIVE SumSeq(_)
SumSeq(s) == IF s = <<>> THEN 0 ELSE Head(s) + SumSeq(Tail(s))

\* s[:n]
Take(s, n) == SubSeq(s, 1, Min(n, Len(s)))

\* [f(x) for x in s]
MapSeq(s, F(_)) == [k \in 1..Len(s) |-> F(s[k])]


-----------------------------------------------------------------------------
(* MasterPipeline._aggregate_decisions *)

Conf(v) == v.confidence

IsContra(v) == v.consistent = 0

IsSupport(v) == v.consistent = 1

\* a contradiction counted as strong only above 0.9
IsVeryStrongContra(v) == v.consistent = 0 /\ v.confidence > SINGLE_CONTRA

IsStrongContra(v) == v.consistent = 0 /\ v.confidence > STRONG_CONTRA

\* the first item, not the most confident one
FirstOf(s) == s[1]

\* max(contradictions, key=confidence): the first item of greatest confidence
RECURSIVE MaxByConfidence(_)
MaxByConfidence(s) ==
    IF Len(s) = 1 THEN s[1]
    ELSE LET rest == MaxByConfidence(Tail(s))
         IN  IF rest.confidence > Head(s).confidence THEN rest ELSE Head(s)

\* the confidence of the first item, not the greatest
FirstConfidence(s) == s[1].confidence

\* max(cv['verification']['confidence'] for cv in strong_contras)
RECURSIVE MaxConfidence(_)
MaxConfidence(s) ==
    IF Len(s) = 1 THEN s[1].confidence
    ELSE Max(Head(s).confidence, MaxConfidence(Tail(s)))

Verdict(c, conf, over, why) ==
    [consistent |-> c, confidence |-> conf, over |-> over, rationale |-> why]

\* the greatest confidence in place of the mean
MaxAsConfidence(vs, c, why) ==
    IF Len(vs) > 0
    THEN Verdict(c, MaxConfidence(vs), 1, why)
    ELSE Verdict(c, 5000, 1, why)

\* sum(confidence) / total_claims if total_claims > 0 else 0.5
AvgConfidence(vs, c, why) ==
    IF Len(vs) > 0
    THEN Verdict(c, SumSeq(MapSeq(vs, Conf)), Len(vs), why)
    ELSE Verdict(c, 5000, 1, why)

Verification(cv) == cv.verification

AggregateDecisions(cvs) ==
    LET vs == MapSeq(cvs, Verification)
        contradictions == SelectSeq(vs, IsContra)
        strong_contras == SelectSeq(vs, IsStrongContra)
        claims_with_support == SelectSeq(vs, IsSupport)
        claims_with_contra == SelectSeq(vs, IsContra)
        support_count == Len(vs) - Len(contradictions)
        contradiction_count == Len(contradictions)
    IN  IF Len(strong_contras) >= 2
        THEN Verdict(0, MaxConfidence(strong_contras), 1, "multiple_strong_contradictions")
        ELSE IF contradictions # <<>>
                /\ MaxByConfidence(contradictions).confidence > SINGLE_CONTRA
        THEN Verdict(0, MaxByConfidence(contradictions).confidence, 1, "strong_contradiction")
        ELSE IF Len(claims_with_support) >= Len(claims_with_contra)
                /\ Len(strong_contras) = 0
        THEN AvgConfidence(vs, 1, "claims_supported")
        ELSE IF Len(claims_with_contra) > Len(claims_with_support)
        THEN AvgConfidence(vs, 0, "claims_contradicted")
        ELSE IF support_count > contradiction_count
        THEN AvgConfidence(vs, 1, "majority_supported")
        ELSE AvgConfidence(vs, 0, "majority_contradicted")

-----------------------------------------------------------------------------
(* Claim identifiers.  A claim_id is kept as its words, split at '_':      *)
(* "event_death" is <<"event", "death">>; str.startswith is a prefix test  *)
(* on the words.                                                           *)

StartsWith(id, p) == Len(id) >= Len(p) /\ SubSeq(id, 1, Len(p)) = p

\* claim_id.startswith('relationship_'): something, maybe empty, follows the '_'
StartsWithRelationship(id) == Len(id) >= 2 /\ id[1] = "relationship"

\* every event_ identifier taken as soft
IsSoftAnyEvent(claim_id) ==
    \/ StartsWith(claim_id, <<"event">>)
    \/ StartsWithRelationship(claim_id)
    \/ claim_id = <<"backstory", "summary">>

IsSoftClaim(claim_id) ==
    \/ StartsWith(claim_id, <<"event", "death">>)
    \/ StartsWith(claim_id, <<"event", "birth">>)
    \/ StartsWithRelationship(claim_id)
    \/ StartsWith(claim_id, <<"event", "education">>)
    \/ claim_id = <<"backstory", "summary">>

-----------------------------------------------------------------------------
(* ConsistencyChecker._fallback_verification *)

\* e.get('adjusted_score', 0): a critical moment carries no adjusted_score
AdjustedScore(e) == IF e.has_score THEN e.adjusted_score ELSE 0

VerificationOf(c, conf, why) ==
    [consistent |-> c, confidence |-> conf, numeric |-> TRUE, rationale |-> why]

\* net_score of line 262, in thousandths: support_score - (contra_score * 2.5)
\* on the sums of adjusted_score over the first five passages of each list
NetScore(ev) ==
    10 * SumSeq(MapSeq(Take(ev.supporting, 5), AdjustedScore))
    - 25 * SumSeq(MapSeq(Take(ev.contradicting, 5), AdjustedScore))

\* the heuristic deciding on the net score alone once there is evidence
FallbackByNetScore(claim, ev) ==
    LET support_score == SumSeq(MapSeq(Take(ev.supporting, 5), AdjustedScore))
        contra_score == SumSeq(MapSeq(Take(ev.contradicting, 5), AdjustedScore))
        net_score == 10 * support_score - 25 * contra_score
        net_conf == Min(2 * Abs(net_score), 9000)
    IN  IF ev.supporting = <<>> /\ ev.contradicting = <<>>
        THEN IF IsSoftClaim(claim.claim_id)
             THEN VerificationOf(1, 5000, "unverifiable_default_consistent")
             ELSE VerificationOf(0, 6000, "no_evidence_may_be_fabricated")
        ELSE IF net_score > 2000
        THEN VerificationOf(1, net_conf, "support_outweighs")
        ELSE IF net_score < -2000
        THEN VerificationOf(0, net_conf, "clear_contradictions")
        ELSE VerificationOf(1, 5500, "mixed_evidence")

\* abs(net_score) / 5.0 without the cap
UncappedNetConfidence(net_score) == 2 * Abs(net_score)

\* min(abs(net_score) / 5.0, 0.9), on a net score in thousandths
NetConfidence(net_score) == Min(2 * Abs(net_score), 9000)

FallbackVerification(claim, ev) ==
    LET support_count == Len(ev.supporting)
        contra_count == Len(ev.contradicting)
        \* hundredths
        support_score == SumSeq(MapSeq(Take(ev.supporting, 5), AdjustedScore))
        contra_score == SumSeq(MapSeq(Take(ev.contradicting, 5), AdjustedScore))
        \* thousandths: support_score - contra_score * 2.5
        net_score == NetScore(ev)
        net_conf == NetConfidence(net_score)
    IN  IF support_count = 0 /\ contra_count = 0
        THEN IF IsSoftClaim(claim.claim_id)
             THEN VerificationOf(1, 5000, "unverifiable_default_consistent")
             ELSE VerificationOf(0, 6000, "no_evidence_may_be_fabricated")
        ELSE IF support_count > 0 /\ contra_count = 0
        THEN VerificationOf(1, Min(9000, 5000 + support_count * 1000), "only_supporting")
        ELSE IF contra_count > 0 /\ support_count = 0
        THEN VerificationOf(0, Min(9000, 5000 + contra_count * 1000), "only_contradicting")
        ELSE IF contra_count >= 3
        THEN IF 10 * contra_score > 3 * support_score
             THEN VerificationOf(0, 7000, "multiple_contradictions")
             ELSE VerificationOf(1, 6000, "support_outweighs")
        ELSE IF net_score > 2000
        THEN VerificationOf(1, net_conf, "support_outweighs")
        ELSE IF net_score < -2000
        THEN VerificationOf(0, net_conf, "clear_contradictions")
        ELSE VerificationOf(1, 5500, "mixed_evidence")

-----------------------------------------------------------------------------
(* ConsistencyChecker.verify_claim *)

\* a key that holds the claim text as well
KeyWithText(claim, ev) ==
    [claim_id |-> claim.claim_id, ns |-> Len(ev.supporting), nc |-> Len(ev.contradicting),
     text |-> claim.text]

\* f"verify_{claim_id}_{len(supporting)}_{len(contradicting)}"
CacheKey(claim, ev) ==
    [claim_id |-> claim.claim_id, ns |-> Len(ev.supporting), nc |-> Len(ev.contradicting)]

CacheHas(c, key) == \E e \in c : e.key = key

CacheGet(c, key) == (CHOOSE e \in c : e.key = key).value

\* INSERT OR REPLACE
CachePut(c, key, value) == {e \in c : e.key # key} \cup {[key |-> key, value |-> value]}

\* str.lower() of a judgment string
Lower(j) == IF j = "Consistent" THEN "consistent" ELSE j

\* What one model call can come to.  kind "fail": the call raised, or the
\* local wrapper reported a status other than success.  kind "json": the
\* reply parsed as a JSON object with these values of judgment and
\* confidence.  kind "text": the reply was no JSON and the judgment is read
\* from its words.
JsonReply(judgment, confidence) ==
    [kind |-> "json", judgment |-> judgment, confidence |-> confidence,
     numeric |-> TRUE, words |-> ""]

TextReply(words) ==
    [kind |-> "text", judgment |-> "", confidence |-> 0, numeric |-> TRUE, words |-> words]

LLMOutcomes ==
    {[kind |-> "fail", judgment |-> "", confidence |-> 0, numeric |-> TRUE, words |-> ""],
     JsonReply("consistent", 9000), JsonReply("Consistent", 8800),
     JsonReply("contradicted", 8800), JsonReply("contradicted", 9500),
     JsonReply("uncertain", 3000),
     \* "confidence": 95
     JsonReply("contradicted", 950000),
     \* "confidence": "high"
     [JsonReply("contradicted", 0) EXCEPT !.numeric = FALSE],
     TextReply("says_contradicted"), TextReply("says_consistent"), TextReply("unclear")}

\* the reply as the remote branch reads it (consistency_checker.py:156-192)
RemoteVerification(provider, llm) ==
    IF provider = "openrouter"
    \* line 156 re-reads response.text, the HTTP body: the JSON envelope of
    \* the API, which has neither a judgment nor a confidence key
    THEN VerificationOf(0, 5000, "llm")
    ELSE IF llm.kind = "json"
    THEN [consistent |-> IF Lower(llm.judgment) = "consistent" THEN 1 ELSE 0,
          confidence |-> llm.confidence, numeric |-> llm.numeric,
          rationale |-> "llm"]
    ELSE IF llm.words = "says_contradicted"
    THEN VerificationOf(0, 7000, "llm")
    ELSE IF llm.words = "says_consistent"
    THEN VerificationOf(1, 7000, "llm")
    ELSE VerificationOf(1, 5000, "llm")

\* the local branch keeping 'uncertain' apart from a contradiction
LenientLocalVerification(llm) ==
    [consistent |-> IF llm.judgment \in {"consistent", "uncertain"} THEN 1 ELSE 0,
     confidence |-> llm.confidence, numeric |-> llm.numeric, rationale |-> "llm"]

\* the reply as the local branch reads it (consistency_checker.py:97-116)
LocalVerification(llm) ==
    [consistent |-> IF llm.judgment = "consistent" THEN 1 ELSE 0,
     confidence |-> llm.confidence, numeric |-> llm.numeric, rationale |-> "llm"]

\* verify_claim: the verification returned, the cache it leaves, the branch
\* that produced the verification (via) and what the model call came to
\* (reply; "none" when no call was made); via and reply are history
\* annotations.
VerifyClaim(c, cc, claim, ev, llm) ==
    LET key == CacheKey(claim, ev)
        Out(v, c2, via, reply) ==
            [verification |-> v, cache |-> c2, via |-> via, reply |-> reply]
    IN  IF c.skip
        THEN Out(FallbackVerification(claim, ev), cc, "fallback", "none")
        ELSE IF ev.supporting = <<>> /\ ev.contradicting = <<>>
        THEN Out(VerificationOf(0, 5000, "no_evidence_found"), cc, "no_evidence", "none")
        ELSE IF CacheHas(cc, key)
        THEN Out(CacheGet(cc, key), cc, "cache", "none")
        ELSE IF c.local
        THEN IF llm.kind = "json"
             THEN Out(LocalVerification(llm),
                      CachePut(cc, key, LocalVerification(llm)), "model", llm.kind)
             ELSE Out(FallbackVerification(claim, ev), cc, "fallback", llm.kind)
        ELSE IF llm.kind = "fail"
        THEN Out(FallbackVerification(claim, ev), cc, "fallback", llm.kind)
        ELSE Out(RemoteVerification(c.provider, llm),
                 CachePut(cc, key, RemoteVerification(c.provider, llm)), "model", llm.kind)

-----------------------------------------------------------------------------
(* Names.  A character name is the sequence of its words (row['char']      *)
(* split at blanks).  The tables give what the source computes from the    *)
(* characters of a word: its lower-case form and its length.               *)

NameWords == {"John", "Smith", "Tom"}

LowerWord(w) ==
    CASE w = "John" -> "john"
      [] w = "Smith" -> "smith"
      [] w = "Tom" -> "tom"
      [] OTHER -> w

WordLen(w) ==
    CASE w = "John" -> 4
      [] w = "Smith" -> 5
      [] w = "Tom" -> 3
      [] OTHER -> 0

\* character.lower(): the lower-case words joined by blanks
LowerName(name) ==
    IF Len(name) = 1 THEN LowerWord(name[1])
    ELSE IF name = <<"John", "Smith">> THEN "john smith"
    ELSE "other name"

\* NovelIngester._find_character_aliases: each alias as its words
FindCharacterAliases(primary_name) ==
    LET parts == primary_name
        last_name == parts[Len(parts)]
    IN  {primary_name}
        \cup (IF Len(parts) > 1 THEN {<<parts[1]>>, <<last_name>>} ELSE {})
        \cup (IF Len(parts) > 1
              THEN {<<t, last_name>> : t \in {"Mr.", "Mrs.", "Miss", "Dr.", "Lord", "Lady"}}
              ELSE {<<t>> \o primary_name : t \in {"Mr.", "Mrs.", "Miss"}})

-----------------------------------------------------------------------------
(* NovelIngester._process_chunk and ingest's annotation loop.  A raw chunk *)
(* is [id, sub, caps, dialogue_lines, action_verbs, patterns]: sub is the  *)
(* set of lower-case strings that occur in its text, caps[w] the number of *)
(* times the capitalised word w occurs in it.                              *)

\* common_words, novel_ingester.py:173
CommonWords == {"The", "But", "However", "Nevertheless", "When", "Where", "How"}

SceneType(raw) ==
    IF raw.dialogue_lines > 5 THEN "dialogue"
    ELSE IF raw.action_verbs > 3 THEN "action"
    ELSE "introspection"

\* main_characters: the names that occur more than once
MainCharacters(raw) ==
    {w \in DOMAIN raw.caps : raw.caps[w] > 1 /\ w \notin CommonWords}

ProcessChunk(raw) ==
    [id |-> raw.id, sub |-> raw.sub, patterns |-> raw.patterns,
     characters |-> MainCharacters(raw), scene_type |-> SceneType(raw)]

\* chunk positions are 1-based here, 0-based in the source
CharacterPositions(cs) ==
    [w \in UNION {cs[k].characters : k \in 1..Len(cs)} |->
        SelectSeq([k \in 1..Len(cs) |-> k], LAMBDA k : w \in cs[k].characters)]

-----------------------------------------------------------------------------
(* NovelIngester.search_character *)

\* term.lower() in text.lower(); the empty string is in every text
InText(term, sub) == term = "" \/ term \in sub

\* number of terms of the list that occur in the text
RECURSIVE CountIn(_, _)
CountIn(terms, sub) ==
    IF terms = <<>> THEN 0
    ELSE (IF InText(Head(terms), sub) THEN 1 ELSE 0) + CountIn(Tail(terms), sub)

\* score (tenths): +1 a positive term, -2 an anti term, +1.5 a pattern
RawScore(chunk, vocab) ==
    10 * CountIn(vocab.positive, chunk.sub)
    - 20 * CountIn(vocab.negative, chunk.sub)
    + 15 * Cardinality(vocab.patterns \cap chunk.patterns)

\* len(matched_terms)
MatchedTerms(chunk, vocab) ==
    CountIn(vocab.positive, chunk.sub) + CountIn(vocab.negative, chunk.sub)

\* the weak-evidence rule, novel_ingester.py:300-301
MatchScore(chunk, vocab) ==
    IF RawScore(chunk, vocab) > 0 /\ MatchedTerms(chunk, vocab) < 2
    THEN 5
    ELSE RawScore(chunk, vocab)

Match(cs, k, vocab) ==
    [chunk |-> k, chunk_id |-> cs[k].id, score |-> MatchScore(cs[k], vocab),
     adjusted_score |-> MatchScore(cs[k], vocab), has_score |-> TRUE,
     contradiction |-> CountIn(vocab.negative, cs[k].sub) > 0,
     scene_type |-> cs[k].scene_type, weight |-> 0]

\* list.sort(key, reverse=True): stable, greatest key first; on <<key, item>>
RECURSIVE InsertDesc(_, _)
InsertDesc(x, s) ==
    IF s = <<>> THEN <<x>>
    ELSE IF Head(s)[1] >= x[1] THEN <<Head(s)>> \o InsertDesc(x, Tail(s))
    ELSE <<x>> \o s

RECURSIVE SortPairsDesc(_)
SortPairsDesc(s) ==
    IF s = <<>> THEN <<>>
    ELSE InsertDesc(s[Len(s)], SortPairsDesc(SubSeq(s, 1, Len(s) - 1)))

SortDesc(s, Key(_)) ==
    LET sorted == SortPairsDesc([k \in 1..Len(s) |-> <<Key(s[k]), s[k]>>])
    IN  [k \in 1..Len(s) |-> sorted[k][2]]

ScoreKey(m) == m.score

WeightKey(m) == m.weight

\* the positions of the chunks where an alias was detected, ascending
ChunkIndices(positions, aliases) ==
    {k \in UNION {{positions[w][n] : n \in 1..Len(positions[w])} : w \in DOMAIN positions} :
        \E a \in aliases : Len(a) = 1 /\ a[1] \in DOMAIN positions
                           /\ \E n \in 1..Len(positions[a[1]]) : positions[a[1]][n] = k}

RECURSIVE SetToSeq(_)
SetToSeq(S) ==
    IF S = {} THEN <<>>
    ELSE LET m == CHOOSE x \in S : \A y \in S : x <= y
         IN  <<m>> \o SetToSeq(S \ {m})

IsMeaningful(m) == m.score # 0

\* matches[:20]
TOP_MATCHES == 20

SearchCharacter(cs, positions, character_name, vocab) ==
    LET idx == SetToSeq(ChunkIndices(positions, FindCharacterAliases(character_name)))
        matches == SelectSeq([n \in 1..Len(idx) |-> Match(cs, idx[n], vocab)], IsMeaningful)
    IN  Take(SortDesc(matches, ScoreKey), TOP_MATCHES)

-----------------------------------------------------------------------------
(* EvidenceRetriever *)

\* scene_weights of retrieve_evidence, in tenths
SceneMultiplier(scene_type) ==
    CASE scene_type = "action" -> 15
      [] scene_type = "introspection" -> 12
      [] OTHER -> 10

NegationPatterns == {"not", "never", "no longer", "contrary to"}

\* _calculate_evidence_weight, in hundredths.  The vocab dict passed as
\* claim has no character_name and no chunk id holds 'early': factors 3
\* and 4 add nothing.
CalculateEvidenceWeight(match, chunk) ==
    Abs(match.adjusted_score) * 5
    + (CASE match.scene_type = "action" -> 200
         [] match.scene_type = "introspection" -> 150
         [] match.scene_type = "dialogue" -> 100
         [] OTHER -> 50)
    + (IF chunk.sub \cap NegationPatterns # {} THEN 300 ELSE 0)

\* char_mentioned, evidence_retriever.py:46-47
CharMentioned(character_name, chunk) ==
    \/ LowerName(character_name) \in chunk.sub
    \/ \E k \in 1..Len(character_name) :
          WordLen(character_name[k]) > 3 /\ LowerWord(character_name[k]) \in chunk.sub

Classified(cs, match) ==
    [match EXCEPT !.adjusted_score = match.score * SceneMultiplier(match.scene_type),
                  !.weight = CalculateEvidenceWeight(match, cs[match.chunk])]

IsSupporting(e) == e.adjusted_score > 0 /\ ~e.contradiction

IsContradicting(e) == ~IsSupporting(e) /\ (e.adjusted_score < 0 \/ e.contradiction)

IsNeutral(e) == ~IsSupporting(e) /\ ~IsContradicting(e)

RetrieveEvidence(cs, positions, character_name, vocab) ==
    LET all_matches == SearchCharacter(cs, positions, character_name, vocab)
        mentioned == SelectSeq(all_matches, LAMBDA m : CharMentioned(character_name, cs[m.chunk]))
        scored == [k \in 1..Len(mentioned) |-> Classified(cs, mentioned[k])]
    IN  [supporting |-> SortDesc(SelectSeq(scored, IsSupporting), WeightKey),
         contradicting |-> SortDesc(SelectSeq(scored, IsContradicting), WeightKey),
         \* the neutral list keeps the match as the ingester gave it
         neutral |-> SelectSeq(mentioned, LAMBDA m : IsNeutral(Classified(cs, m)))]

\* trigger_map, evidence_retriever.py:166-172
TriggerConcepts == <<"fear", "brave", "water", "height", "social">>

TriggerMap(concept) ==
    CASE concept = "fear" -> <<"danger", "threat", "scared", "frightened">>
      [] concept = "brave" -> <<"danger", "risk", "battle", "fight", "confront">>
      [] concept = "water" -> <<"water", "river", "sea", "ocean", "drown">>
      [] concept = "height" -> <<"height", "cliff", "mountain", "high", "fall">>
      [] concept = "social" -> <<"talk", "speak", "meet", "people", "crowd">>
      [] OTHER -> <<>>

RECURSIVE ConceptTriggers(_, _)
ConceptTriggers(concepts, sub) ==
    IF concepts = <<>> THEN <<>>
    ELSE (IF Head(concepts) \in sub THEN TriggerMap(Head(concepts)) ELSE <<>>)
         \o ConceptTriggers(Tail(concepts), sub)

\* _extract_triggers
ExtractTriggers(claim) ==
    IF claim.claim_type = "fear" /\ claim.text.fear_of # ""
    THEN <<claim.text.fear_of>> \o TriggerMap(claim.text.fear_of)
    ELSE Take(ConceptTriggers(TriggerConcepts, claim.text.sub), 5)

SeqToSet(s) == {s[k] : k \in 1..Len(s)}

IsCriticalMoment(chunk, character_name, claim, triggers) ==
    /\ SeqToSet(triggers) \cap chunk.sub # {}
    /\ LowerName(character_name) \in chunk.sub
    /\ \A n \in 1..Len(claim.search_vocabulary) :
          ~InText(claim.search_vocabulary[n], chunk.sub)

\* weight 2.5; the dict has no score and no adjusted_score
CriticalMoment(cs, k) ==
    [chunk |-> k, chunk_id |-> cs[k].id, score |-> 0, adjusted_score |-> 0,
     has_score |-> FALSE, contradiction |-> FALSE, scene_type |-> "", weight |-> 250]

FindCriticalMoments(cs, character_name, claim) ==
    LET triggers == ExtractTriggers(claim)
        hits == SelectSeq([k \in 1..Len(cs) |-> k],
                          LAMBDA k : IsCriticalMoment(cs[k], character_name, claim, triggers))
    IN  IF triggers = <<>> THEN <<>>
        ELSE [n \in 1..Len(hits) |-> CriticalMoment(cs, hits[n])]

\* vocab_dict of process_example, master_pipeline.py:93-97
VocabDict(claim) ==
    [positive |-> claim.search_vocabulary, negative |-> claim.anti_vocabulary,
     patterns |-> claim.syntactic_patterns]

\* the evidence verify_claim is given: retrieve_evidence, then the critical
\* moments appended to the contradicting list (master_pipeline.py:99-103)
ClaimEvidence(cs, positions, character_name, claim) ==
    LET ev == RetrieveEvidence(cs, positions, character_name, VocabDict(claim))
    IN  [ev EXCEPT !.contradicting = @ \o FindCriticalMoments(cs, character_name, claim)]

-----------------------------------------------------------------------------
(* SmartFallback.  A sentence is [tid, chars, sub, words, pronoun, trait,  *)
(* emotion, event, rel, verb, fear_of]: tid names its text, chars is its   *)
(* stripped length, sub the lower-case strings that occur in it, words its *)
(* words of four letters or more that are no stopword, and trait, emotion, *)
(* event, rel, verb what the lexicon regexes find in it first.             *)

NumStr(n) ==
    <<"0", "1", "2", "3", "4", "5", "6", "7", "8", "9", "10", "11", "12",
      "13", "14", "15", "16", "17", "18", "19", "20">>[n + 1]

\* the words of the name that the vocabulary regex \b\w{4,}\b keeps
RECURSIVE NameTerms(_)
NameTerms(name) ==
    IF name = <<>> THEN <<>>
    ELSE (IF WordLen(Head(name)) >= 4 THEN <<LowerWord(Head(name))>> ELSE <<>>)
         \o NameTerms(Tail(name))

NameSub(name) == {LowerName(name)} \cup {LowerWord(name[k]) : k \in 1..Len(name)}

\* _format_claim: the name is put in front of a sentence that lacks it
FormatClaim(sent, char_name) ==
    IF LowerName(char_name) \in sent.sub
    THEN [pre |-> "", tid |-> sent.tid, sub |-> sent.sub, words |-> sent.words,
          fear_of |-> sent.fear_of]
    ELSE [pre |-> IF sent.pronoun THEN "name's" ELSE "name", tid |-> sent.tid,
          sub |-> sent.sub \cup NameSub(char_name),
          words |-> NameTerms(char_name) \o sent.words, fear_of |-> sent.fear_of]

RawClaim(id, text, type, importance, trait, event, rel) ==
    [claim_id |-> id, has_text |-> TRUE, text |-> text, claim_type |-> type,
     importance |-> importance, detected_trait |-> trait, event_type |-> event,
     relationship_type |-> rel]

\* one pass of the loop of extract_claims_smart over a sentence
SentenceClaims(sent, char_name, n_claims) ==
    IF sent.chars < 15 THEN <<>>
    ELSE IF sent.trait # ""
    THEN <<RawClaim(<<"trait", sent.trait>>, FormatClaim(sent, char_name), "trait",
                    "high", sent.trait, "", "")>>
    ELSE IF sent.emotion # ""
    THEN <<RawClaim(<<"emotion", sent.emotion>>, FormatClaim(sent, char_name),
                    IF sent.emotion \in {"fear", "afraid", "scared"} THEN "fear" ELSE "trait",
                    "high", "", "", "")>>
    ELSE IF sent.event # ""
    THEN <<RawClaim(<<"event", sent.event>>, FormatClaim(sent, char_name), "event",
                    "high", "", sent.event, "")>>
    ELSE IF sent.rel # ""
    THEN <<RawClaim(<<"relationship", sent.rel>>, FormatClaim(sent, char_name),
                    "relationship", "medium", "", "", sent.rel)>>
    ELSE IF sent.verb
    THEN <<RawClaim(<<"action", NumStr(n_claims)>>, FormatClaim(sent, char_name), "event",
                    "medium", "", "action", "")>>
    ELSE <<>>

RECURSIVE SentenceLoop(_, _, _)
SentenceLoop(sentences, char_name, acc) ==
    IF sentences = <<>> THEN acc
    ELSE SentenceLoop(Tail(sentences), char_name,
                      acc \o SentenceClaims(Head(sentences), char_name, Len(acc)))

\* len(text): every sentence is followed by its delimiter and a blank
RECURSIVE TextLen(_)
TextLen(sentences) ==
    IF sentences = <<>> THEN 0
    ELSE Head(sentences).chars + 2 + TextLen(Tail(sentences))

\* the sentences that lie inside text[:200]
RECURSIVE Prefix200(_, _)
Prefix200(sentences, offset) ==
    IF sentences = <<>> \/ offset + Head(sentences).chars > 200 THEN <<>>
    ELSE <<Head(sentences)>> \o Prefix200(Tail(sentences), offset + Head(sentences).chars + 2)

RECURSIVE ConcatWords(_)
ConcatWords(sentences) ==
    IF sentences = <<>> THEN <<>>
    ELSE Head(sentences).words \o ConcatWords(Tail(sentences))

\* the backstory_summary claim of text[:200]
SummaryClaim(sentences) ==
    LET inside == Prefix200(sentences, 0)
    IN  RawClaim(<<"backstory", "summary">>,
                 [pre |-> "", tid |-> 0,
                  sub |-> UNION {inside[k].sub : k \in 1..Len(inside)},
                  words |-> ConcatWords(inside), fear_of |-> ""],
                 "event", "medium", "", "general", "")

\* claim['claim_text'].lower().strip(), the key of _deduplicate
TextKey(claim) == <<claim.text.pre, claim.text.tid>>

RECURSIVE Deduplicate(_, _)
Deduplicate(cl, seen) ==
    IF cl = <<>> THEN <<>>
    ELSE IF TextKey(Head(cl)) \in seen THEN Deduplicate(Tail(cl), seen)
    ELSE <<Head(cl)>> \o Deduplicate(Tail(cl), seen \cup {TextKey(Head(cl))})

\* self._deduplicate(claims)[:12]
SMART_LIMIT == 12

ExtractClaimsSmart(sentences, char_name) ==
    LET found == SentenceLoop(sentences, char_name, <<>>)
        all == IF found = <<>> /\ TextLen(sentences) > 20
               THEN <<SummaryClaim(sentences)>>
               ELSE found
    IN  Take(Deduplicate(all, {}), SMART_LIMIT)

-----------------------------------------------------------------------------
(* SmartFallback.smart_vocabulary_generation *)

\* self.events.get(event_type, [])[:3]
EventTerms(event_type) ==
    CASE event_type = "death" -> <<"died", "killed", "murdered">>
      [] event_type = "birth" -> <<"born", "birth", "came into the world">>
      [] event_type = "orphaned" -> <<"orphan", "lost parents", "parents died">>
      [] event_type = "marriage" -> <<"married", "wedding", "wed">>
      [] event_type = "arrest" -> <<"arrested", "imprisoned", "jailed">>
      [] event_type = "education" -> <<"studied", "learned", "trained">>
      [] event_type = "injury" -> <<"injured", "wounded", "hurt">>
      [] event_type = "conflict" -> <<"argued", "fought", "disagreed">>
      [] OTHER -> <<>>

\* [rel_type, f'his {rel_type}', f'her {rel_type}']
RelationshipTerms(rel) ==
    CASE rel = "father" -> <<"father", "his father", "her father">>
      [] rel = "mother" -> <<"mother", "his mother", "her mother">>
      [] OTHER -> <<rel, "his ", "her ">>

\* [f'no {rel_type}', f'without {rel_type}']
RelationshipAntiTerms(rel) ==
    CASE rel = "father" -> <<"no father", "without father">>
      [] rel = "mother" -> <<"no mother", "without mother">>
      [] OTHER -> <<"no ", "without ">>

TypeTerms(claim) ==
    IF claim.claim_type = "trait" /\ claim.detected_trait # ""
    THEN CASE claim.detected_trait = "brave" ->
                <<"brave", "courageous", "heroic", "fearless", "bold", "daring">>
           [] claim.detected_trait = "cruel" ->
                <<"cruel", "harsh", "brutal", "merciless", "ruthless">>
           [] claim.detected_trait = "intelligent" ->
                <<"smart", "intelligent", "clever", "wise", "brilliant">>
           [] OTHER -> <<claim.detected_trait>>
    ELSE IF claim.claim_type = "event" /\ claim.event_type # ""
    THEN EventTerms(claim.event_type)
    ELSE IF claim.claim_type = "relationship"
    THEN RelationshipTerms(claim.relationship_type)
    ELSE <<>>

TypeAntiTerms(claim) ==
    IF claim.claim_type = "trait" /\ claim.detected_trait # ""
    THEN CASE claim.detected_trait = "brave" ->
                <<"coward", "cowardly", "afraid", "scared", "fled", "hid">>
           [] claim.detected_trait = "cruel" ->
                <<"kind", "gentle", "merciful", "compassionate">>
           [] claim.detected_trait = "intelligent" ->
                <<"foolish", "stupid", "dumb", "ignorant">>
           [] OTHER -> <<>>
    ELSE IF claim.claim_type = "event" /\ claim.event_type # ""
    THEN <<"never happened", "did not occur", "false">>
    ELSE IF claim.claim_type = "relationship"
    THEN RelationshipAntiTerms(claim.relationship_type)
    ELSE <<>>

\* list(dict.fromkeys(terms)): first occurrences, in order
RECURSIVE Unique(_, _)
Unique(terms, seen) ==
    IF terms = <<>> THEN <<>>
    ELSE IF Head(terms) \in seen THEN Unique(Tail(terms), seen)
    ELSE <<Head(terms)>> \o Unique(Tail(terms), seen \cup {Head(terms)})

SmartVocabularyGeneration(claim) ==
    [positive |-> Take(Unique(claim.text.words \o TypeTerms(claim), {}), 15),
     negative |-> Take(Unique(TypeAntiTerms(claim), {}), 10),
     confidence |-> IF claim.claim_type \in {"trait", "event"} THEN 8000 ELSE 6000]

-----------------------------------------------------------------------------
(* ClaimDecomposer *)

\* config.py:59
MAX_CLAIMS_PER_BACKSTORY == 15

\* self.vague_patterns
VaguePatterns ==
    {"complex", "complicated", "difficult", "hard", "easy", "interesting", "unique",
     "special", "different", "normal", "good", "bad", "nice", "strange", "weird"}

\* _enrich_claim on the smart-vocabulary path (a claim with its claim_text
\* and claim_type keys): the patterns list is left empty
EnrichClaim(claim) ==
    LET vocab == SmartVocabularyGeneration(claim)
    IN  [claim_id |-> claim.claim_id, has_text |-> claim.has_text, text |-> claim.text,
         claim_type |-> claim.claim_type, importance |-> claim.importance,
         detected_trait |-> claim.detected_trait, event_type |-> claim.event_type,
         relationship_type |-> claim.relationship_type,
         search_vocabulary |-> vocab.positive, anti_vocabulary |-> vocab.negative,
         syntactic_patterns |-> {}, confidence |-> vocab.confidence]

IsConfident(claim) == claim.confidence >= 6000

IsNotVague(claim) == claim.text.sub \cap VaguePatterns = {}

\* _filter_vague_claims
FilterVagueClaims(cl) == SelectSeq(cl, IsNotVague)

\* _extract_claims_with_llm.  llm is what the model call came to: kind
\* "fail" (the call raised, a rate limit, an unparsable reply, the local
\* wrapper not reporting success) or kind "claims" with the list parsed.
ExtractClaimsWithLLM(c, sentences, char_name, llm) ==
    IF c.skip THEN ExtractClaimsSmart(sentences, char_name)
    ELSE IF llm.kind = "fail" THEN ExtractClaimsSmart(sentences, char_name)
    ELSE llm.claims

\* decompose without the final cut
DecomposeUncut(c, sentences, char_name, llm) ==
    LET raw_claims == ExtractClaimsWithLLM(c, sentences, char_name, llm)
        enriched == SelectSeq(MapSeq(raw_claims, EnrichClaim), IsConfident)
    IN  IF \E k \in 1..Len(raw_claims) : ~raw_claims[k].has_text
        THEN [raised |-> TRUE, claims |-> <<>>]
        ELSE [raised |-> FALSE, claims |-> FilterVagueClaims(enriched)]

\* decompose: raised when claim['claim_text'] is missing from a raw claim
Decompose(c, sentences, char_name, llm) ==
    LET raw_claims == ExtractClaimsWithLLM(c, sentences, char_name, llm)
        enriched == SelectSeq(MapSeq(raw_claims, EnrichClaim), IsConfident)
    IN  IF \E k \in 1..Len(raw_claims) : ~raw_claims[k].has_text
        THEN [raised |-> TRUE, claims |-> <<>>]
        ELSE [raised |-> FALSE,
              claims |-> Take(FilterVagueClaims(enriched), MAX_CLAIMS_PER_BACKSTORY)]

\* claims[:10] of claim_decomposer_api.py:70
API_LIMIT == 10

\* APIClaimDecomposer.decompose: generate_json raises once its retries are
\* used up, a reply without a 'claims' key raises ValueError
APIDecompose(llm) ==
    IF llm.kind = "fail"
    THEN [raised |-> TRUE, claims |-> <<>>]
    ELSE [raised |-> FALSE, claims |-> Take(llm.claims, API_LIMIT)]

-----------------------------------------------------------------------------
(* Inputs *)

\* the configurations: SKIP_LLM_USE_FALLBACK, USE_LOCAL_LLM, LLM_PROVIDER
Configs ==
    {[skip |-> TRUE, local |-> FALSE, provider |-> "openrouter"],
     [skip |-> FALSE, local |-> TRUE, provider |-> "openrouter"],
     [skip |-> FALSE, local |-> FALSE, provider |-> "openrouter"],
     [skip |-> FALSE, local |-> FALSE, provider |-> "gemini"]}

Characters == {<<"John">>, <<"Tom">>, <<"John", "Smith">>}

Sentence(chars, sub, words, pronoun, trait, emotion, event, rel, verb, fear_of) ==
    [tid |-> 0, chars |-> chars, sub |-> sub, words |-> words, pronoun |-> pronoun,
     trait |-> trait, emotion |-> emotion, event |-> event, rel |-> rel, verb |-> verb,
     fear_of |-> fear_of]

\* "John is a brave man at heart"
SBrave == Sentence(28, {"john", "brave"}, <<"john", "brave", "heart">>, TRUE,
                   "brave", "", "", "", FALSE, "")

\* "His father died in the war"
SDeath == Sentence(26, {"father", "died"}, <<"father", "died">>, TRUE,
                   "", "", "death", "", FALSE, "")

\* "He was married at twenty"
SMarried == Sentence(24, {"married"}, <<"married", "twenty">>, TRUE,
                     "", "", "marriage", "", TRUE, "")

\* "His father was a sailor"
SFather == Sentence(23, {"father"}, <<"father", "sailor">>, TRUE,
                    "", "", "", "father", TRUE, "")

\* "He had a hard life at sea"
SHard == Sentence(25, {"hard"}, <<"hard", "life">>, TRUE, "", "", "", "", TRUE, "")

\* "He had two dogs at home"
SDogs == Sentence(23, {}, <<"dogs", "home">>, TRUE, "", "", "", "", TRUE, "")

\* "He ran"
SShort == Sentence(6, {}, <<>>, TRUE, "", "", "", "", FALSE, "")

\* "A quiet man of the hills"
SQuiet == Sentence(24, {}, <<"quiet", "hills">>, TRUE, "", "", "", "", FALSE, "")

\* "He lived in fear of water"
SFear == Sentence(25, {"fear", "water"}, <<"lived", "fear", "water">>, TRUE,
                  "", "fear", "", "", FALSE, "water")

SentenceKinds == {SBrave, SDeath, SMarried, SFather, SHard, SDogs, SShort, SQuiet, SFear}

\* the k-th sentence of a text: its own wording unless the text repeats itself
Numbered(pattern, n, repeat) ==
    [k \in 1..n |->
        [pattern[((k - 1) % Len(pattern)) + 1] EXCEPT
            !.tid = IF repeat THEN ((k - 1) % Len(pattern)) + 1 ELSE k]]

RawChunk(john, smith, tom, sub, dialogue_lines, action_verbs) ==
    [id |-> 0, sub |-> sub, patterns |-> {},
     caps |-> [w \in NameWords |->
                 CASE w = "John" -> john [] w = "Smith" -> smith [] OTHER -> tom],
     dialogue_lines |-> dialogue_lines, action_verbs |-> action_verbs]

\* John, twice by name, fights without fear
CBrave == RawChunk(2, 0, 0, {"john", "brave", "fearless"}, 0, 4)

\* John, twice by name, "fled", "hid", "not"
CCoward == RawChunk(2, 0, 0, {"john", "fled", "hid", "not"}, 0, 0)

\* John, twice by name, and "his father died"
CFather == RawChunk(2, 0, 0, {"john", "father", "his father", "his ", "died"}, 6, 0)

\* John named once, in "danger"
COnce == RawChunk(1, 0, 0, {"john", "danger", "brave"}, 0, 0)

\* nobody named: "his stomach", "danger"
CStomach == RawChunk(0, 0, 0, {"tom", "his ", "danger"}, 0, 0)

\* Tom, twice by name, "brave", "bold", in "danger"
CTom == RawChunk(0, 0, 2, {"tom", "brave", "bold", "danger"}, 0, 4)

\* Tom, twice by name, at the "river"
CRiver == RawChunk(0, 0, 2, {"tom", "river"}, 0, 0)

\* Smith, twice by surname, "heroic" and "brave"
CSmith == RawChunk(0, 2, 0, {"smith", "heroic", "brave"}, 0, 0)

\* John Smith, "never" but "cowardly"
CJohnSmith == RawChunk(2, 2, 0, {"john", "smith", "john smith", "coward", "cowardly",
                                 "never"}, 0, 0)

\* Tom, twice by name, who "fled"
CTomFled == RawChunk(0, 0, 2, {"tom", "fled"}, 0, 0)

ChunkKinds == {CBrave, CCoward, CFather, COnce, CStomach, CTom, CRiver, CSmith, CJohnSmith}

\* the k-th chunk of a novel that repeats the pattern
NumberedChunks(pattern, n) ==
    [k \in 1..n |-> [pattern[((k - 1) % Len(pattern)) + 1] EXCEPT !.id = k]]

\* a claim as a model writes it: the text names the character
ModelClaim(id, type, tid, char_name, sub, words, fear_of) ==
    RawClaim(id, [pre |-> "", tid |-> tid, sub |-> sub \cup NameSub(char_name),
                  words |-> NameTerms(char_name) \o words, fear_of |-> fear_of],
             type, "high", "", "", "")

\* "<name> has a fear of water"
MFear(char_name, tid) ==
    ModelClaim(<<"fear", "of", "water">>, "fear", tid, char_name, {"fear", "water"},
               <<"fear", "water">>, "water")

\* "<name>'s father was strict"
MStrictFather(char_name, tid) ==
    ModelClaim(<<"strict", "father">>, "relationship", tid, char_name, {"father"},
               <<"father", "strict">>, "")

\* "<name> had a hard childhood"
MHard(char_name, tid) ==
    ModelClaim(<<"hard", "childhood">>, "event", tid, char_name, {"hard"},
               <<"hard", "childhood">>, "")

\* a claim object without its claim_text key
MNoText(tid) ==
    [RawClaim(<<"no", "text">>, [pre |-> "", tid |-> tid, sub |-> {}, words |-> <<>>,
                                 fear_of |-> ""], "trait", "high", "", "", "")
       EXCEPT !.has_text = FALSE]

ModelClaimKinds(char_name) ==
    {<<MFear(char_name, 1)>>, <<MStrictFather(char_name, 1)>>, <<MHard(char_name, 1)>>,
     <<MFear(char_name, 1), MStrictFather(char_name, 2)>>}

NumberedClaims(pattern, n) ==
    [k \in 1..n |->
        [pattern[((k - 1) % Len(pattern)) + 1] EXCEPT !.text.tid = k]]

ExtractionFails == [kind |-> "fail", claims |-> <<>>]

ExtractionReturns(cl) == [kind |-> "claims", claims |-> cl]

-----------------------------------------------------------------------------
(* MasterPipeline.process_example, as batch_process runs it *)

NoResult ==
    [status |-> "none", prediction |-> 0, confidence |-> 0, over |-> 1, rationale |-> ""]

\* a default verdict of confidence 0.5
HalfConfidenceResult(why) ==
    [status |-> "error", prediction |-> 0, confidence |-> 5000, over |-> 1, rationale |-> why]

\* the dicts of lines 52-58, 62-68 and 256-263: prediction 0, confidence 0.0
ErrorResult(why) ==
    [status |-> "error", prediction |-> 0, confidence |-> 0, over |-> 1, rationale |-> why]

\* lines 124-133
VerdictResult(v) ==
    [status |-> "verdict", prediction |-> v.consistent, confidence |-> v.confidence,
     over |-> v.over, rationale |-> v.rationale]

\* claims[:5]
VerifiedClaims == Take(claims, 5)

DecomposeStep ==
    /\ pc = "decompose"
    /\ UNCHANGED <<ingester_vars, batch_vars, index_vars, attempts>>
    /\ LET d == Decompose(cfg, backstory, character, extraction)
       IN  IF d.raised
           THEN /\ result' = ErrorResult("claim_decomposition_error")
                /\ pc' = "done"
                /\ claims' = <<>>
           ELSE IF d.claims = <<>>
           THEN /\ result' = ErrorResult("failed_to_generate_claims")
                /\ pc' = "done"
                /\ claims' = <<>>
           ELSE /\ claims' = d.claims
                /\ pc' = "ingest"
                /\ result' = result
    /\ UNCHANGED <<cfg, character, backstory, novel, extraction, chunks,
                   character_positions, i, evidence, claim_verifications, cache>>

\* no book is taken as cached
NeverCached(ings, book) == FALSE

\* book_name in self.ingesters; a book_name stands for one file of the
\* books directory, and the novel stands here for its name
IsCached(ings, book) == book \in DOMAIN ings

\* self.ingesters[book_name] = ingester
Cached(ings, book, index) ==
    [b \in DOMAIN ings \cup {book} |-> IF b = book THEN index ELSE ings[b]]

\* lines 72-82: the novel is loaded and ingested unless its index is cached
IngestStep ==
    /\ pc = "ingest"
    /\ UNCHANGED <<ingester_vars, batch_vars, attempts>>
    /\ IF IsCached(ingesters, novel)
       THEN /\ chunks' = ingesters[novel].chunks
            /\ character_positions' = ingesters[novel].character_positions
            /\ pc' = "retrieve"
            /\ result' = result
            /\ UNCHANGED index_vars
       ELSE IF ~novel.found
       \* load_novel raises ValueError, caught by batch_process
       THEN /\ result' = ErrorResult("processing_error")
            /\ pc' = "done"
            /\ UNCHANGED <<chunks, character_positions, index_vars>>
       ELSE /\ chunks' = MapSeq(novel.chunks, ProcessChunk)
            /\ character_positions' = CharacterPositions(MapSeq(novel.chunks, ProcessChunk))
            /\ ingesters' = Cached(ingesters, novel,
                                   [chunks |-> MapSeq(novel.chunks, ProcessChunk),
                                    character_positions |->
                                        CharacterPositions(MapSeq(novel.chunks, ProcessChunk))])
            /\ builds' = Append(builds, novel)
            /\ pc' = "retrieve"
            /\ result' = result
    /\ UNCHANGED <<cfg, character, backstory, novel, extraction, claims, i, evidence,
                   claim_verifications, cache>>

RetrieveStep ==
    /\ pc = "retrieve"
    /\ UNCHANGED <<ingester_vars, batch_vars, index_vars, attempts>>
    /\ evidence' = ClaimEvidence(chunks, character_positions, character, claims[i])
    /\ pc' = "verify"
    /\ UNCHANGED <<cfg, character, backstory, novel, extraction, claims, chunks,
                   character_positions, i, claim_verifications, cache, result>>

VerifyStep ==
    /\ pc = "verify"
    /\ UNCHANGED <<ingester_vars, batch_vars, index_vars, attempts>>
    /\ \E llm \in LLMOutcomes :
          LET out == VerifyClaim(cfg, cache, claims[i], evidence, llm)
          IN  /\ claim_verifications' =
                    Append(claim_verifications,
                           [claim |-> claims[i], evidence |-> evidence,
                            verification |-> out.verification, via |-> out.via,
                            reply |-> out.reply])
              /\ cache' = out.cache
    /\ IF i < Len(VerifiedClaims)
       THEN i' = i + 1 /\ pc' = "retrieve"
       ELSE i' = i /\ pc' = "aggregate"
    /\ UNCHANGED <<cfg, character, backstory, novel, extraction, claims, chunks,
                   character_positions, evidence, result>>

\* total_confidence += verification['confidence'] raises TypeError on a
\* confidence that is no number; batch_process catches it
AggregateStep ==
    /\ pc = "aggregate"
    /\ UNCHANGED <<ingester_vars, batch_vars, index_vars, attempts>>
    /\ IF \E k \in 1..Len(claim_verifications) : ~claim_verifications[k].verification.numeric
       THEN result' = ErrorResult("processing_error")
       ELSE result' = VerdictResult(AggregateDecisions(claim_verifications))
    /\ pc' = "done"
    /\ UNCHANGED <<cfg, character, backstory, novel, extraction, claims, chunks,
                   character_positions, i, evidence, claim_verifications, cache>>

NoEvidence == [supporting |-> <<>>, contradicting |-> <<>>, neutral |-> <<>>]

NoPositions == [w \in {} |-> <<>>]

-----------------------------------------------------------------------------
(* One backstory through the pipeline *)

\* sentences of a backstory
MaxSentences == 3

\* chunks of a novel
MaxChunks == 3

StoryPatterns ==
    {<<SBrave>>, <<SDeath, SFather>>, <<SHard>>, <<SShort>>, <<SQuiet>>,
     <<SMarried, SDogs>>, <<SFear>>}

Stories == {Numbered(p, n, FALSE) : p \in StoryPatterns, n \in 1..MaxSentences}

NovelPatterns ==
    {<<CBrave, CCoward>>, <<CCoward>>, <<CStomach, CTom>>, <<CFather, COnce>>,
     <<CSmith, CJohnSmith>>, <<CRiver>>}

Novels ==
    {[found |-> FALSE, chunks |-> <<>>]}
    \cup {[found |-> TRUE, chunks |-> NumberedChunks(p, n)] :
            p \in NovelPatterns, n \in 0..MaxChunks}

\* with SKIP_LLM_USE_FALLBACK no extraction call is made
Extractions(c, char_name) ==
    IF c.skip THEN {ExtractionFails}
    ELSE {ExtractionFails, ExtractionReturns(<<>>), ExtractionReturns(<<MNoText(1)>>)}
         \cup {ExtractionReturns(cl) : cl \in ModelClaimKinds(char_name)}

\* MasterPipeline.__init__: self.ingesters = {}
NoIngesters == [b \in {} |-> NoEvidence]

\* no text ingester, no batch and no model call in play
Idle ==
    /\ raw_text = <<>>
    /\ ingests = <<>>
    /\ story_ids = <<>>
    /\ results = <<>>
    /\ entry = "batch_process"
    /\ ingesters = NoIngesters
    /\ builds = <<>>
    /\ attempts = <<>>

Fresh ==
    /\ Idle
    /\ claims = <<>>
    /\ chunks = <<>>
    /\ character_positions = NoPositions
    /\ i = 1
    /\ evidence = NoEvidence
    /\ claim_verifications = <<>>
    /\ cache = {}
    /\ result = NoResult

Init ==
    /\ pc = "decompose"
    /\ cfg \in Configs
    /\ character \in Characters
    /\ backstory \in Stories
    /\ novel \in Novels
    /\ extraction \in Extractions(cfg, character)
    /\ Fresh

Next ==
    \/ DecomposeStep
    \/ IngestStep
    \/ RetrieveStep
    \/ VerifyStep
    \/ AggregateStep

Spec == Init /\ [][Next]_vars

-----------------------------------------------------------------------------
(* _aggregate_decisions on its own: every list of verifications *)

\* verifications in a list handed to the aggregator
MaxVerifications == 4

\* confidences on both sides of the thresholds 0.85 and 0.9
GivenConfidences == {5000, 8500, 8600, 9000, 9100}

GivenVerifications ==
    {[verification |-> [consistent |-> c, confidence |-> conf, numeric |-> TRUE,
                        rationale |-> "given"],
      via |-> "given"] : c \in {0, 1}, conf \in GivenConfidences}

InitAgg ==
    /\ pc = "aggregate"
    /\ cfg \in {c \in Configs : c.skip}
    /\ character = <<"John">>
    /\ backstory = <<>>
    /\ novel = [found |-> TRUE, chunks |-> <<>>]
    /\ extraction = ExtractionFails
    /\ claims = <<>>
    /\ chunks = <<>>
    /\ character_positions = NoPositions
    /\ i = 1
    /\ evidence = NoEvidence
    /\ claim_verifications \in UNION {[1..n -> GivenVerifications] : n \in 0..MaxVerifications}
    /\ cache = {}
    /\ result = NoResult
    /\ Idle

NextAgg == AggregateStep

SpecAgg == InitAgg /\ [][NextAgg]_vars

\* the indices of the contradicted verifications of confidence > 0.85
StrongAt == {k \in 1..Len(claim_verifications) :
                /\ claim_verifications[k].verification.consistent = 0
                /\ claim_verifications[k].verification.confidence > STRONG_CONTRA}

\* C1: once the aggregator has returned, a list with at least two
\* contradicted verifications of confidence > 0.85 has the verdict 0, whatever
\* the other verifications are, and the verdict's confidence is the greatest
\* confidence among those strong contradictions.
C1_StrongContradictionsOverride ==
    (pc = "done" /\ Cardinality(StrongAt) >= 2) =>
        /\ result.status = "verdict"
        /\ result.prediction = 0
        /\ result.over = 1
        /\ \E k \in StrongAt :
              result.confidence = claim_verifications[k].verification.confidence
        /\ \A k \in StrongAt :
              result.confidence >= claim_verifications[k].verification.confidence

\* two strong contradictions of different confidence, the smaller one first,
\* next to a consistent verification of confidence 0.91
C1_Witness ==
    /\ pc = "done"
    /\ Cardinality(StrongAt) >= 2
    /\ \E j, k \in StrongAt :
          /\ j < k
          /\ claim_verifications[j].verification.confidence
                < claim_verifications[k].verification.confidence
    /\ \E k \in 1..Len(claim_verifications) :
          /\ claim_verifications[k].verification.consistent = 1
          /\ claim_verifications[k].verification.confidence = 9100
    /\ result.prediction = 0

\* the contradicted and the consistent verifications of the list
ContraAt == {k \in 1..Len(claim_verifications) :
                claim_verifications[k].verification.consistent = 0}

SupportAt == {k \in 1..Len(claim_verifications) :
                claim_verifications[k].verification.consistent = 1}

\* the sum of the confidences of the list
RECURSIVE ConfidenceSum(_)
ConfidenceSum(n) ==
    IF n = 0 THEN 0
    ELSE claim_verifications[n].verification.confidence + ConfidenceSum(n - 1)

\* the verdict's confidence is the arithmetic mean of the list's confidences
\* (both are fractions: compared by cross-multiplication)
ConfidenceIsMean ==
    result.confidence * Len(claim_verifications)
        = ConfidenceSum(Len(claim_verifications)) * result.over

\* neither override fires: fewer than two contradictions above 0.85 and no
\* contradiction above 0.9
NoOverride ==
    /\ Cardinality(StrongAt) < 2
    /\ \A k \in ContraAt :
          claim_verifications[k].verification.confidence <= SINGLE_CONTRA

\* C18: when neither override fires, a non-empty list with at least as many
\* consistent as contradicted verifications (ties included) and no contradiction
\* of confidence > 0.85 has the verdict 1, a list with more contradicted than
\* consistent verifications has the verdict 0, and in both cases the verdict's
\* confidence is the arithmetic mean of all the confidences of the list.
C18_CountComparison ==
    (pc = "done" /\ NoOverride /\ claim_verifications # <<>>) =>
        /\ (Cardinality(SupportAt) >= Cardinality(ContraAt) /\ StrongAt = {}) =>
              /\ result.status = "verdict"
              /\ result.prediction = 1
              /\ ConfidenceIsMean
        /\ Cardinality(ContraAt) > Cardinality(SupportAt) =>
              /\ result.status = "verdict"
              /\ result.prediction = 0
              /\ ConfidenceIsMean

\* a tie decided as consistent and a contradicted majority, each over
\* verifications of different confidences
C18_Witness ==
    /\ pc = "done"
    /\ NoOverride
    /\ Len(claim_verifications) = 4
    /\ \E j, k \in 1..Len(claim_verifications) :
          claim_verifications[j].verification.confidence
              # claim_verifications[k].verification.confidence
    /\ \/ /\ Cardinality(SupportAt) = Cardinality(ContraAt)
          /\ StrongAt = {}
          /\ result.prediction = 1
       \/ /\ Cardinality(ContraAt) = 3
          /\ Cardinality(StrongAt) = 1
          /\ result.prediction = 0

\* the verdict came from the final majority vote (lines 229-244)
FromMajorityVote == result.rationale \in {"majority_supported", "majority_contradicted"}

\* C19 (as stated): the final majority vote never returns the verdict.
C19_FallbackUnreachable ==
    pc = "done" => ~FromMajorityVote

\* C19 (amended): the final majority vote returns the verdict exactly when
\* neither override fires, exactly one contradiction has confidence > 0.85
\* (so within (0.85, 0.9]) and the consistent verifications are at least as
\* many as the contradicted ones; the verdict is then 1 if the consistent
\* verifications are strictly more and 0 on a tie, with the mean confidence.
C19_MajorityVoteReached ==
    pc = "done" =>
        /\ FromMajorityVote <=>
              /\ NoOverride
              /\ Cardinality(StrongAt) = 1
              /\ Cardinality(SupportAt) >= Cardinality(ContraAt)
        /\ FromMajorityVote =>
              /\ result.prediction =
                    (IF Cardinality(SupportAt) > Cardinality(ContraAt) THEN 1 ELSE 0)
              /\ ConfidenceIsMean

\* one consistent verification against one contradiction of confidence 0.86:
\* the tie is decided by the majority vote, as inconsistent
C19_Witness ==
    /\ pc = "done"
    /\ Len(claim_verifications) = 2
    /\ Cardinality(SupportAt) = 1
    /\ \E k \in StrongAt : claim_verifications[k].verification.confidence = 8600
    /\ result.rationale = "majority_contradicted"
    /\ result.prediction = 0

\* the contradicted verifications of the greatest confidence
StrongestAt == {k \in ContraAt :
                  \A j \in ContraAt :
                      claim_verifications[k].verification.confidence
                          >= claim_verifications[j].verification.confidence}

\* C20: with fewer than two contradictions of confidence > 0.85, a list whose
\* most confident contradiction has confidence > 0.9 has the verdict 0 with
\* exactly that confidence, whatever the consistent verifications are.
C20_SingleStrongContradiction ==
    (/\ pc = "done"
     /\ Cardinality(StrongAt) < 2
     /\ \E k \in StrongestAt :
           claim_verifications[k].verification.confidence > SINGLE_CONTRA) =>
        /\ result.status = "verdict"
        /\ result.prediction = 0
        /\ result.over = 1
        /\ \A k \in StrongestAt :
              result.confidence = claim_verifications[k].verification.confidence

\* a contradiction of confidence 0.91 that is not the first contradiction of
\* the list, outnumbered by consistent verifications of confidence 0.91
C20_Witness ==
    /\ pc = "done"
    /\ Cardinality(StrongAt) = 1
    /\ Cardinality(ContraAt) = 2
    /\ \E j \in ContraAt, k \in StrongAt : j < k
    /\ \A k \in StrongAt : claim_verifications[k].verification.confidence = 9100
    /\ Cardinality({k \in SupportAt :
                      claim_verifications[k].verification.confidence = 9100}) = 2
    /\ result.prediction = 0
    /\ result.confidence = 9100

-----------------------------------------------------------------------------
(* Claims about one backstory through the pipeline (Spec) *)

\* the verified claims so far: positions in claim_verifications
Verified == 1..Len(claim_verifications)

OnlySupporting(cv) == cv.evidence.supporting # <<>> /\ cv.evidence.contradicting = <<>>

OnlyContradicting(cv) == cv.evidence.supporting = <<>> /\ cv.evidence.contradicting # <<>>

EmptyEvidence(cv) == cv.evidence.supporting = <<>> /\ cv.evidence.contradicting = <<>>

\* the backstory's only verified claim has been aggregated
SingleClaimDone == pc = "done" /\ Len(claim_verifications) = 1

\* C2: whatever path the backstory takes, the verdict returned has its
\* prediction in {0, 1} and its confidence in [0, 1].
C2_VerdictInRange ==
    result.status # "none" =>
        /\ result.prediction \in {0, 1}
        /\ 0 <= result.confidence
        /\ result.confidence <= UNIT * result.over

\* C3: a claim with at least one supporting passage and no contradicting
\* passage is verified consistent with confidence >= 0.5, and when it is the
\* backstory's only verified claim the aggregate prediction is 1.
C3_SupportingOnlyConsistent ==
    \A k \in Verified :
        OnlySupporting(claim_verifications[k]) =>
            /\ claim_verifications[k].verification.consistent = 1
            /\ claim_verifications[k].verification.numeric
            /\ claim_verifications[k].verification.confidence >= 5000
            /\ SingleClaimDone => (result.status = "verdict" /\ result.prediction = 1)

\* C4 as stated: a claim with at least one contradicting passage and no
\* supporting passage is verified contradicted, and when it is the backstory's
\* only verified claim the aggregate prediction is 0.
C4_ContradictingOnlyContradicted ==
    \A k \in Verified :
        OnlyContradicting(claim_verifications[k]) =>
            /\ claim_verifications[k].verification.consistent = 0
            /\ SingleClaimDone => result.prediction = 0

\* C4, amended: when the scoring heuristic produces the verification (the
\* fallback-only configuration, or a model call that failed), a claim with at
\* least one contradicting passage and no supporting passage is verified
\* contradicted, and when it is the backstory's only verified claim the
\* aggregate is a verdict of prediction 0.
C4_HeuristicContradictingOnly ==
    \A k \in Verified :
        (OnlyContradicting(claim_verifications[k])
         /\ claim_verifications[k].via = "fallback") =>
            /\ claim_verifications[k].verification.consistent = 0
            /\ SingleClaimDone => (result.status = "verdict" /\ result.prediction = 0)

\* a model configuration whose call failed, one claim, contradicted by the
\* heuristic on contradicting passages alone, aggregated to 0
C4_Witness ==
    /\ SingleClaimDone
    /\ ~cfg.skip
    /\ OnlyContradicting(claim_verifications[1])
    /\ claim_verifications[1].via = "fallback"
    /\ claim_verifications[1].verification.consistent = 0
    /\ result.status = "verdict"
    /\ result.prediction = 0

\* C5: a claim of type "relationship" with neither supporting nor
\* contradicting passages is verified consistent with confidence 0.5, in
\* every configuration and for every claim identifier.
C5_RelationshipDefault ==
    \A k \in Verified :
        (claim_verifications[k].claim.claim_type = "relationship"
         /\ EmptyEvidence(claim_verifications[k])) =>
            /\ claim_verifications[k].verification.consistent = 1
            /\ claim_verifications[k].verification.confidence = 5000

\* the sub-types _extract_event_claim detects (smart_fallback.py:23-32)
DetectedEvents ==
    {"death", "birth", "orphaned", "marriage", "arrest", "education", "injury", "conflict"}

AliasWords(character_name) ==
    {a[1] : a \in {b \in FindCharacterAliases(character_name) : Len(b) = 1}}

\* C7: every supporting or contradicting item handed to the verifier,
\* critical moments included, comes from a chunk whose detected character set
\* holds the character name or one of its aliases.
C7_CharacterGate ==
    pc = "verify" =>
        \A e \in SeqToSet(evidence.supporting) \cup SeqToSet(evidence.contradicting) :
            chunks[e.chunk].characters \cap AliasWords(character) # {}

\* C10: the claim list decompose hands on for a non-empty backstory is never
\* empty.
C10_NeverEmptyClaims ==
    (pc # "decompose" /\ result.rationale # "claim_decomposition_error") =>
        claims # <<>>

\* C12: whenever the model call of a verification failed, or its reply was
\* no structured data (free text instead of the JSON object asked for), the
\* verification recorded is exactly what _fallback_verification gives on the
\* same claim and evidence.
C12_DegradesToHeuristic ==
    \A k \in 1..Len(claim_verifications) :
        claim_verifications[k].reply \in {"fail", "text"} =>
            claim_verifications[k].verification =
                FallbackVerification(claim_verifications[k].claim,
                                     claim_verifications[k].evidence)

\* both lists of the evidence hold a passage
MixedEvidence(cv) == cv.evidence.supporting # <<>> /\ cv.evidence.contradicting # <<>>

\* the contradicting strength: the magnitudes of the scores of the first five
\* contradicting passages
ContraStrength(ev) ==
    SumSeq(MapSeq(Take(ev.contradicting, 5), LAMBDA e : Abs(AdjustedScore(e))))

\* the same evidence with one more anti-vocabulary term matched in every
\* scored contradicting passage: search_character takes 2 from its score
\* and retrieve_evidence multiplies by the weight of the scene
StrongerContradiction(ev) ==
    [supporting |-> ev.supporting,
     contradicting |->
        [k \in 1..Len(ev.contradicting) |->
            IF ev.contradicting[k].has_score
            THEN [ev.contradicting[k] EXCEPT
                     !.score = @ - 20,
                     !.adjusted_score = (ev.contradicting[k].score - 20)
                                        * SceneMultiplier(ev.contradicting[k].scene_type),
                     !.contradiction = TRUE]
            ELSE ev.contradicting[k]],
     neutral |-> ev.neutral]

\* C21: when the heuristic verifies a claim on evidence with supporting and
\* contradicting passages, the net score is the supporting score less 2.5
\* times the contradicting strength; one more anti-vocabulary match in the
\* contradicting passages does not raise the net score and does not turn a
\* contradicted judgment into consistent; with fewer than three
\* contradicting passages a net score under -2 gives contradicted and one
\* over +2 gives consistent.
C21_ContradictionPenalty ==
    \A k \in Verified :
        LET cv == claim_verifications[k]
            ev == cv.evidence
        IN  (MixedEvidence(cv) /\ cv.via = "fallback") =>
                /\ NetScore(ev) =
                      10 * SumSeq(MapSeq(Take(ev.supporting, 5), AdjustedScore))
                      - 25 * ContraStrength(ev)
                /\ NetScore(StrongerContradiction(ev)) <= NetScore(ev)
                /\ cv.verification.consistent = 0 =>
                      FallbackVerification(cv.claim, StrongerContradiction(ev)).consistent = 0
                /\ (Len(ev.contradicting) < 3 /\ NetScore(ev) < -2000) =>
                      cv.verification.consistent = 0
                /\ (Len(ev.contradicting) < 3 /\ NetScore(ev) > 2000) =>
                      cv.verification.consistent = 1

\* the critical moments among the contradicting passages: the dicts of
\* find_critical_moments carry a weight and no score
IsCriticalEntry(e) == ~e.has_score

\* the evidence as retrieve_evidence gave it, the critical moments left out
WithoutCriticalMoments(ev) ==
    [ev EXCEPT !.contradicting = SelectSeq(@, LAMBDA e : ~IsCriticalEntry(e))]

\* C22: every critical moment found for a claim is among the claim's
\* contradicting evidence with the elevated weight 2.5, and when the
\* heuristic verifies the claim a critical moment among the passages it sums
\* makes the contradiction score greater than it is without the critical
\* moments.
C22_CriticalMomentWeight ==
    \A k \in Verified :
        LET cv == claim_verifications[k]
            found == FindCriticalMoments(chunks, character, cv.claim)
        IN  /\ \A n \in 1..Len(found) :
                  /\ found[n] \in SeqToSet(cv.evidence.contradicting)
                  /\ found[n].weight = 250
            /\ (cv.via = "fallback"
                /\ \E n \in 1..Min(5, Len(cv.evidence.contradicting)) :
                       IsCriticalEntry(cv.evidence.contradicting[n])) =>
                  ContraStrength(cv.evidence) >
                      ContraStrength(WithoutCriticalMoments(cv.evidence))

\* process_example returned because decompose gave an empty list
EmptyExtraction ==
    pc = "done" /\ claims = <<>> /\ result.rationale # "claim_decomposition_error"

\* load_novel raised: the novel of the backstory is not among the books
NovelNotFound == pc = "done" /\ claims # <<>> /\ ~novel.found

-----------------------------------------------------------------------------
(* Retrieval against a long novel (SpecRetrieve) *)

\* chunks of the long novel
MaxIndexed == 12

\* config.py:66
TOP_K_EVIDENCE == 10

InitRetrieve ==
    /\ pc = "decompose"
    /\ cfg \in Configs
    /\ character \in {<<"John">>, <<"John", "Smith">>, <<"Tom">>}
    /\ backstory \in {Numbered(<<SBrave>>, 1, FALSE), Numbered(<<SBrave, SMarried>>, 2, FALSE)}
    /\ novel \in {[found |-> TRUE, chunks |-> NumberedChunks(p, n)] :
                    p \in {<<CBrave>>, <<CBrave, CCoward>>, <<CJohnSmith, CBrave, COnce>>,
                           <<CTomFled, CTom>>},
                    n \in 0..MaxIndexed}
    /\ extraction = ExtractionFails
    /\ Fresh

SpecRetrieve == InitRetrieve /\ [][Next]_vars

\* C8: the evidence returned for a claim holds at most TOP_K_EVIDENCE (10)
\* items in total.
C8_TopKTruncation ==
    pc = "verify" =>
        Len(evidence.supporting) + Len(evidence.contradicting) + Len(evidence.neutral)
            <= TOP_K_EVIDENCE

\* the chunks search_character looks at for the character
CharacterChunks == ChunkIndices(character_positions, FindCharacterAliases(character))

\* search_character returns the chunk with a score of magnitude 0.5
KeptAsWeak(c, vocab) ==
    LET matches == SearchCharacter(chunks, character_positions, character, vocab)
    IN  \E n \in 1..Len(matches) : matches[n].chunk = c /\ Abs(matches[n].score) = 5

\* C23: every character chunk that matches exactly one vocabulary term of a
\* claim, a positive term or an anti-vocabulary term, is among the matches
\* of search_character with the weak score of magnitude 0.5.
C23_WeakEvidenceRule ==
    \A k \in Verified :
        LET vocab == VocabDict(claim_verifications[k].claim)
        IN  \A c \in CharacterChunks :
                MatchedTerms(chunks[c], vocab) = 1 => KeptAsWeak(c, vocab)

-----------------------------------------------------------------------------
(* The verification loop on backstories of many claims (SpecLoop) *)

\* sentences of a backstory of many claims
MaxClaimed == 7

InitLoop ==
    /\ pc = "decompose"
    /\ cfg \in {c \in Configs : c.skip \/ (c.provider = "openrouter" /\ ~c.local)}
    /\ character \in {<<"John">>, <<"Tom">>}
    /\ backstory \in {Numbered(p, n, FALSE) :
                        p \in {<<SBrave, SMarried>>, <<SDogs>>}, n \in 1..MaxClaimed}
    /\ novel \in {[found |-> TRUE, chunks |-> NumberedChunks(<<CBrave>>, n)] : n \in 0..1}
    /\ extraction = ExtractionFails
    /\ Fresh

SpecLoop == InitLoop /\ [][Next]_vars

\* C15: when the aggregator is called, and after it, claim_verifications
\* holds exactly one verification for each claim decompose returned, in the
\* order of the claims.
C15_EveryClaimVerified ==
    (pc = "aggregate" \/ (pc = "done" /\ result.status = "verdict")) =>
        /\ Len(claim_verifications) = Len(claims)
        /\ \A k \in 1..Len(claims) : claim_verifications[k].claim = claims[k]

-----------------------------------------------------------------------------
(* The three claim extractors on long inputs (SpecDecompose) *)

\* sentences of a long backstory
MaxBackstory == 14

\* claims in a model's reply
MaxModelClaims == 17

LongStories ==
    {Numbered(p, n, r) : p \in {<<SBrave>>, <<SDeath, SDogs>>, <<SFather, SHard, SShort>>},
                         n \in 1..MaxBackstory, r \in BOOLEAN}

LongReplies(char_name) ==
    {ExtractionFails}
    \cup {ExtractionReturns(NumberedClaims(p, n)) :
            p \in {<<MFear(char_name, 0)>>, <<MStrictFather(char_name, 0), MHard(char_name, 0)>>},
            n \in 0..MaxModelClaims}

InitDecompose ==
    /\ pc = "decompose"
    /\ cfg \in Configs
    /\ character \in {<<"John">>, <<"Tom">>}
    /\ backstory \in LongStories
    /\ novel = [found |-> TRUE, chunks |-> <<>>]
    /\ extraction \in LongReplies(character)
    /\ Fresh

\* SmartFallback.extract_claims_smart called on the backstory
ExtractSmartStep ==
    /\ pc = "decompose"
    /\ UNCHANGED <<ingester_vars, batch_vars, index_vars, attempts>>
    /\ claims' = ExtractClaimsSmart(backstory, character)
    /\ pc' = "smart_returned"
    /\ UNCHANGED <<cfg, character, backstory, novel, extraction, chunks,
                   character_positions, i, evidence, claim_verifications, cache, result>>

\* APIClaimDecomposer.decompose called on the backstory
APIDecomposeStep ==
    /\ pc = "decompose"
    /\ UNCHANGED <<ingester_vars, batch_vars, index_vars, attempts>>
    /\ IF APIDecompose(extraction).raised
       THEN claims' = <<>> /\ pc' = "api_raised"
       ELSE claims' = APIDecompose(extraction).claims /\ pc' = "api_returned"
    /\ UNCHANGED <<cfg, character, backstory, novel, extraction, chunks,
                   character_positions, i, evidence, claim_verifications, cache, result>>

NextDecompose ==
    \/ DecomposeStep
    \/ ExtractSmartStep
    \/ APIDecomposeStep

SpecDecompose == InitDecompose /\ [][NextDecompose]_vars

\* what decompose gives from the pattern-based extractor alone
PatternClaims == Decompose([cfg EXCEPT !.skip = TRUE], backstory, character, ExtractionFails)

\* C11: when the model call of a model-based extractor has failed, decompose
\* of ClaimDecomposer returns the claims of the pattern-based extractor, and
\* decompose of APIClaimDecomposer returns as well and does not raise.
C11_ExtractionHandOff ==
    extraction.kind = "fail" =>
        /\ (pc \in {"ingest", "done"} /\ ~cfg.skip) =>
              /\ result.rationale # "claim_decomposition_error"
              /\ claims = PatternClaims.claims
        /\ pc # "api_raised"

\* C9: ClaimDecomposer.decompose returns at most MAX_CLAIMS_PER_BACKSTORY
\* (15) claims, extract_claims_smart at most 12, APIClaimDecomposer.decompose
\* at most 10, however many sentences or model claims there are.
C9_ClaimCountBound ==
    /\ pc \in {"ingest", "done"} => Len(claims) <= MAX_CLAIMS_PER_BACKSTORY
    /\ pc = "smart_returned" => Len(claims) <= SMART_LIMIT
    /\ pc = "api_returned" => Len(claims) <= API_LIMIT

\* a reply of more than 15 claims, none filtered, cut to 15 by decompose
C9_Witness ==
    /\ pc = "ingest"
    /\ extraction.kind = "claims"
    /\ Len(FilterVagueClaims(MapSeq(extraction.claims, EnrichClaim)))
          > MAX_CLAIMS_PER_BACKSTORY
    /\ ~cfg.skip
    /\ Len(claims) = MAX_CLAIMS_PER_BACKSTORY

-----------------------------------------------------------------------------
(* NovelIngester on a text.  raw_text is a sequence of blocks; a block is a *)
(* run of text without a line break, either a paragraph or a header line   *)
(* ("Chapter 2"), with its length in characters (len), its number of words *)
(* (words), the names and action verbs it opens with (opening) and the     *)
(* length of the white space before it (gap: 0 at the start of the text,   *)
(* 1 a line break, 2 a blank line "\n\n", 3 a blank line with a blank in   *)
(* it); pad counts the blanks, part of len, that end the block.  The text  *)
(* of a chunk is kept as the range of words of raw_text it holds (lo, hi:  *)
(* the first word and one past the last), the way the words are joined and *)
(* its length in characters (chars) where the text is a stripped slice.    *)

\* novel_ingester.py:83  len(split_points) < 5
MIN_CHAPTERS == 5

\* novel_ingester.py:94  len(chunk_text) > 500
CHAPTER_MIN_CHARS == 500

\* novel_ingester.py:130  len(chunk_text) > 300
SCENE_MIN_CHARS == 300

\* novel_ingester.py:143  target_size: int = 1500
FIXED_TARGET == 1500

\* len(raw_text[:end of block k])
RECURSIVE CharsUpTo(_, _)
CharsUpTo(text, k) ==
    IF k = 0 THEN 0 ELSE CharsUpTo(text, k - 1) + text[k].gap + text[k].len

\* len(raw_text[:end of block k].split())
RECURSIVE WordsUpTo(_, _)
WordsUpTo(text, k) ==
    IF k = 0 THEN 0 ELSE WordsUpTo(text, k - 1) + text[k].words

\* the length of blocks a..b with the white space between them
SpanLen(text, a, b) ==
    IF a > b THEN 0 ELSE CharsUpTo(text, b) - CharsUpTo(text, a - 1) - text[a].gap

\* len(raw_text[...].strip()) on blocks a..b: the blanks that end the last
\* block are stripped
StrippedLen(text, a, b) ==
    IF a > b THEN 0 ELSE SpanLen(text, a, b) - text[b].pad

\* the text of blocks a..b, as written and stripped
SpanText(text, a, b) ==
    [lo |-> WordsUpTo(text, a - 1), hi |-> WordsUpTo(text, Max(a - 1, b)),
     joined |-> "as_written", chars |-> StrippedLen(text, a, b)]

\* the blocks selected by a test on their index, in order
Indices(text, Test(_)) == SelectSeq([k \in 1..Len(text) |-> k], Test)

\* re.finditer(combined_pattern, raw_text): a header line matches with the
\* line break before it, so a header that opens the text does not match
SplitPoints(text) ==
    Indices(text, LAMBDA k : text[k].kind = "header" /\ text[k].gap >= 1)

\* re.split(r'\n\s*\n', raw_text): the blocks that open a piece
PieceStarts(text) == Indices(text, LAMBDA k : k = 1 \/ text[k].gap >= 2)

\* the last block of the j-th span, given the blocks that open the spans
SpanEnd(text, starts, j) ==
    IF j < Len(starts) THEN starts[j + 1] - 1 ELSE Len(text)

\* pos after j pieces: pos += chunk_len + 2
RECURSIVE ScenePos(_, _)
ScenePos(text, j) ==
    IF j = 0 THEN 0
    ELSE LET starts == PieceStarts(text)
         IN  ScenePos(text, j - 1)
                 + SpanLen(text, starts[j], SpanEnd(text, starts, j)) + 2

\* every piece between blank lines taken as a scene, whatever its length
ChunkByBlankLines(text) ==
    LET starts == PieceStarts(text)
    IN  [j \in 1..Len(starts) |->
            [id |-> <<"sc", j - 1>>,
             text |-> SpanText(text, starts[j], SpanEnd(text, starts, j)),
             start_pos |-> ScenePos(text, j - 1),
             end_pos |-> ScenePos(text, j - 1)
                         + SpanLen(text, starts[j], SpanEnd(text, starts, j)),
             type |-> "scene"]]

\* _chunk_by_scene
ChunkByScene(text) ==
    LET starts == PieceStarts(text)
        PieceLen(j) == SpanLen(text, starts[j], SpanEnd(text, starts, j))
        kept == SelectSeq([j \in 1..Len(starts) |-> j],
                          LAMBDA j : PieceLen(j) > SCENE_MIN_CHARS)
    IN  [n \in 1..Len(kept) |->
            [id |-> <<"sc", kept[n] - 1>>,
             text |-> SpanText(text, starts[kept[n]], SpanEnd(text, starts, kept[n])),
             start_pos |-> ScenePos(text, kept[n] - 1),
             end_pos |-> ScenePos(text, kept[n] - 1) + PieceLen(kept[n]),
             type |-> "scene"]]

\* _chunk_fixed_size
ChunkFixedSize(text, target_size) ==
    LET total == WordsUpTo(text, Len(text))
        count == (total + target_size - 1) \div target_size
    IN  [n \in 1..count |->
            [id |-> <<"fk", n - 1>>,
             text |-> [lo |-> (n - 1) * target_size,
                       hi |-> Min(n * target_size, total), joined |-> "by_blanks"],
             start_pos |-> (n - 1) * target_size,
             end_pos |-> Min(n * target_size, total),
             type |-> "fixed"]]

\* chunks of the default size whatever the headers are
ChunkFixedDefault(text) == ChunkFixedSize(text, FIXED_TARGET)

\* _chunk_by_chapter: span j runs from the (j-1)-th match (the start of the
\* text for j = 1) to the j-th match (the end of the text after the last)
ChunkByChapter(text) ==
    LET pts == SplitPoints(text)
        First(j) == IF j = 1 THEN 1 ELSE pts[j - 1]
        Last(j) == IF j <= Len(pts) THEN pts[j] - 1 ELSE Len(text)
        kept == SelectSeq([j \in 1..Len(pts) + 1 |-> j],
                          LAMBDA j : StrippedLen(text, First(j), Last(j)) > CHAPTER_MIN_CHARS)
    IN  IF Len(pts) < MIN_CHAPTERS
        THEN ChunkByScene(text)
        ELSE [n \in 1..Len(kept) |->
                [id |-> <<"ch", kept[n] - 1>>,
                 text |-> SpanText(text, First(kept[n]), Last(kept[n])),
                 start_pos |-> CharsUpTo(text, First(kept[n]) - 1),
                 end_pos |-> CharsUpTo(text, Last(kept[n])),
                 type |-> "chapter"]]

\* the chunking ingest selects for a chunk_method
ChunksBy(text, chunk_method) ==
    IF chunk_method = "chapter" THEN ChunkByChapter(text)
    ELSE IF chunk_method = "scene" THEN ChunkByScene(text)
    ELSE ChunkFixedSize(text, FIXED_TARGET)

\* how often word w stands among the words lo..hi-1 of the text
RECURSIVE Occurrences(_, _, _, _, _)
Occurrences(text, k, w, lo, hi) ==
    IF k = 0 THEN 0
    ELSE Occurrences(text, k - 1, w, lo, hi)
         + Cardinality({j \in 1..Len(text[k].opening) :
                          /\ text[k].opening[j] = w
                          /\ WordsUpTo(text, k - 1) + j - 1 >= lo
                          /\ WordsUpTo(text, k - 1) + j - 1 < hi})

\* what _process_chunk reads in chunk['text']
ChunkContent(text, chunk) ==
    LET Count(w) == Occurrences(text, Len(text), w, chunk.text.lo, chunk.text.hi)
    IN  [id |-> chunk.id,
         sub |-> {LowerWord(w) : w \in {x \in NameWords \cup {"ran"} : Count(x) > 0}},
         patterns |-> {},
         caps |-> [w \in NameWords |-> Count(w)],
         dialogue_lines |-> 0,
         action_verbs |-> Count("ran")]

\* _process_chunk on a chunk of the text
ProcessTextChunk(text, chunk) ==
    LET p == ProcessChunk(ChunkContent(text, chunk))
    IN  [id |-> chunk.id, text |-> chunk.text, start_pos |-> chunk.start_pos,
         end_pos |-> chunk.end_pos, type |-> chunk.type, sub |-> p.sub,
         patterns |-> p.patterns, characters |-> p.characters,
         scene_type |-> p.scene_type]

\* self.character_positions[char].append(index), on top of what is there
AppendPositions(positions, cs) ==
    LET added == CharacterPositions(cs)
    IN  [w \in DOMAIN positions \cup DOMAIN added |->
            (IF w \in DOMAIN positions THEN positions[w] ELSE <<>>)
            \o (IF w \in DOMAIN added THEN added[w] ELSE <<>>)]

\* the chunks of this call put after the chunks already there
ExtendChunks(old, new) == old \o new

\* self.chunks = self._chunk_by_...(): the chunks of this call replace the old
AssignChunks(old, new) == new

\* what identifies a chunk: its id, its offsets and its text
ChunkCore(cs) ==
    [k \in 1..Len(cs) |->
        [id |-> cs[k].id, start_pos |-> cs[k].start_pos, end_pos |-> cs[k].end_pos,
         text |-> cs[k].text]]

\* calls of ingest on one text
MaxIngests == 2

\* blocks of a text
MaxBlocks == 12

\* ingest(chunk_method) on the ingester as it stands
IngestCall ==
    /\ pc = "ingester"
    /\ Len(ingests) < MaxIngests
    /\ \E chunk_method \in {"chapter", "scene", "fixed"} :
          LET processed == MapSeq(ChunksBy(raw_text, chunk_method),
                                  LAMBDA c : ProcessTextChunk(raw_text, c))
          IN  /\ chunks' = AssignChunks(chunks, processed)
              /\ character_positions' = AppendPositions(character_positions, processed)
              /\ ingests' = Append(ingests, [chunk_method |-> chunk_method,
                                             chunks |-> AssignChunks(chunks, processed)])
    /\ UNCHANGED <<pc, cfg, character, backstory, novel, extraction, claims, i, evidence,
                   claim_verifications, cache, result, raw_text, batch_vars, index_vars,
                   attempts>>

\* NovelIngester(novel_text, is_text=True): a fresh ingester of the same text
NewIngester ==
    /\ pc = "ingester"
    /\ ingests # <<>>
    /\ chunks' = <<>>
    /\ character_positions' = NoPositions
    /\ UNCHANGED <<pc, cfg, character, backstory, novel, extraction, claims, i, evidence,
                   claim_verifications, cache, result, ingester_vars, batch_vars, index_vars,
                   attempts>>

Block(kind, len, words, opening, gap) ==
    [kind |-> kind, len |-> len, words |-> words, opening |-> opening, gap |-> gap,
     pad |-> 0]

\* a header line "Chapter 2" after a blank line, and after a line break
HBlank == Block("header", 9, 2, <<>>, 2)

HBreak == Block("header", 9, 2, <<>>, 1)

\* paragraphs: too short for a scene, a scene, a chapter, and a long one
PShort == Block("para", 200, 35, <<"Tom">>, 2)

PScene == Block("para", 400, 70, <<"John", "John", "ran">>, 2)

PJoined == Block("para", 250, 45, <<"John">>, 1)

PChapter == Block("para", 600, 100, <<"Tom", "Tom", "John">>, 3)

PLong == Block("para", 9000, 1600, <<"John", "John", "ran", "ran", "ran", "ran">>, 2)

\* a paragraph of 298 characters and four blanks before the end of its line
PPadded == [Block("para", 302, 50, <<"John">>, 2) EXCEPT !.pad = 4]

TextPatterns ==
    {<<PScene>>, <<PShort, PScene, PJoined>>, <<PChapter, HBlank>>,
     <<HBlank, PChapter, PShort>>, <<PLong, HBreak, PScene>>, <<PJoined, PJoined>>,
     <<PPadded, PScene>>}

\* the text that repeats a pattern over n blocks; a text opens without white space
RepeatedText(pattern, n) ==
    [k \in 1..n |-> [pattern[((k - 1) % Len(pattern)) + 1] EXCEPT
                        !.gap = IF k = 1 THEN 0 ELSE @]]

InitIngest ==
    /\ pc = "ingester"
    /\ raw_text \in {RepeatedText(p, n) : p \in TextPatterns, n \in 1..MaxBlocks}
    /\ ingests = <<>>
    /\ cfg \in {c \in Configs : c.skip}
    /\ character = <<"John">>
    /\ backstory = <<>>
    /\ novel = [found |-> TRUE, chunks |-> <<>>]
    /\ extraction = ExtractionFails
    /\ claims = <<>>
    /\ chunks = <<>>
    /\ character_positions = NoPositions
    /\ i = 1
    /\ evidence = NoEvidence
    /\ claim_verifications = <<>>
    /\ cache = {}
    /\ result = NoResult
    /\ story_ids = <<>>
    /\ results = <<>>
    /\ entry = "batch_process"
    /\ ingesters = NoIngesters
    /\ builds = <<>>
    /\ attempts = <<>>

NextIngest ==
    \/ IngestCall
    \/ NewIngester

SpecIngest == InitIngest /\ [][NextIngest]_vars

\* C16: any two calls of ingest with the same method on the same text, on
\* the same ingester or on a fresh one, return the same number of chunks with
\* the same ids, the same start and end offsets and the same texts.
C16_IngestIdempotent ==
    \A a, b \in 1..Len(ingests) :
        ingests[a].chunk_method = ingests[b].chunk_method =>
            ChunkCore(ingests[a].chunks) = ChunkCore(ingests[b].chunks)

\* ingest called twice on the same ingester, by chapters, on a text of
\* several chapters: the positions of the characters have doubled
C16_Witness ==
    /\ Len(ingests) >= 2
    /\ ingests[1].chunk_method = "chapter"
    /\ ingests[2].chunk_method = "chapter"
    /\ Len(ingests[2].chunks) >= 2
    /\ ingests[2].chunks[1].type = "chapter"
    /\ \E w \in DOMAIN character_positions :
          Len(character_positions[w]) = 2 * Len(chunks)

\* the text has a blank-line break
HasBlankLine(text) == \E k \in 2..Len(text) : text[k].gap >= 2

\* C17: on a text with fewer than 5 header matches and with blank-line
\* breaks, ingest with the default method returns the chunks of the scene
\* chunking, all of type 'scene', none of type 'fixed'.
C17_SceneNotFixed ==
    \A a \in 1..Len(ingests) :
        (/\ ingests[a].chunk_method = "chapter"
         /\ Len(SplitPoints(raw_text)) < MIN_CHAPTERS
         /\ HasBlankLine(raw_text)) =>
            /\ \A k \in 1..Len(ingests[a].chunks) : ingests[a].chunks[k].type = "scene"
            /\ ChunkCore(ingests[a].chunks) = ChunkCore(ChunkByScene(raw_text))

\* a text with four header matches and blank lines, ingested by default into
\* several scene chunks
C17_Witness ==
    /\ Len(ingests) >= 1
    /\ ingests[1].chunk_method = "chapter"
    /\ Len(SplitPoints(raw_text)) = MIN_CHAPTERS - 1
    /\ HasBlankLine(raw_text)
    /\ Len(ingests[1].chunks) >= 3
    /\ \A k \in 1..Len(ingests[1].chunks) : ingests[1].chunks[k].type = "scene"

\* C24: on a text with fewer than 5 header matches whose scene chunking
\* yields no chunk, ingest with the default method returns the fixed-size
\* windows of 1500 words, so the index of a non-empty text is not empty.
C24_FixedSizeLastResort ==
    \A a \in 1..Len(ingests) :
        (/\ ingests[a].chunk_method = "chapter"
         /\ raw_text # <<>>
         /\ Len(SplitPoints(raw_text)) < MIN_CHAPTERS
         /\ ChunkByScene(raw_text) = <<>>) =>
            /\ ingests[a].chunks # <<>>
            /\ \A k \in 1..Len(ingests[a].chunks) : ingests[a].chunks[k].type = "fixed"
            /\ ChunkCore(ingests[a].chunks) =
                  ChunkCore(ChunkFixedSize(raw_text, FIXED_TARGET))

-----------------------------------------------------------------------------
(* MasterPipeline.batch_process and generate_submission: the loop over the *)
(* stories, each processed by process_example (SpecBatch)                  *)

\* story ids handed to one call
MaxStories == 2

\* the rows of the data frame, by story id: a story that is verified, one
\* whose novel is not among the books, one whose backstory gives no claim,
\* (5) another backstory on the book of story 1, and (6) another character
\* in another book
Dataset ==
    [sid \in {1, 2, 3, 5, 6} |->
        CASE sid \in {1, 5} ->
                 [character |-> <<"John">>,
                  backstory |-> Numbered(IF sid = 1 THEN <<SBrave>> ELSE <<SMarried>>,
                                         1, FALSE),
                  novel |-> [found |-> TRUE,
                             chunks |-> NumberedChunks(<<CBrave, CCoward>>, 2)]]
          [] sid = 2 -> [character |-> <<"Tom">>,
                         backstory |-> Numbered(<<SFather>>, 1, FALSE),
                         novel |-> [found |-> FALSE, chunks |-> <<>>]]
          [] sid = 6 -> [character |-> <<"Tom">>,
                         backstory |-> Numbered(<<SFather>>, 1, FALSE),
                         novel |-> [found |-> TRUE,
                                    chunks |-> NumberedChunks(<<CTom, CRiver>>, 2)]]
          [] OTHER -> [character |-> <<"John">>,
                       backstory |-> Numbered(<<SShort>>, 1, FALSE),
                       novel |-> [found |-> TRUE, chunks |-> NumberedChunks(<<CBrave>>, 1)]]]

\* story ids, one of them in no row of the data frame
StoryIds == DOMAIN Dataset \cup {4}

\* the story the loop is at
CurrentStory == story_ids[Len(results) + 1]

\* process_example begins for the next story: the row is looked up
\* (.iloc[0] raises IndexError for an id without a row) and the locals are new
StartStory ==
    /\ pc = "next"
    /\ Len(results) < Len(story_ids)
    /\ IF CurrentStory \notin DOMAIN Dataset
       THEN /\ result' = ErrorResult("processing_error")
            /\ pc' = "done"
            /\ UNCHANGED <<character, backstory, novel, extraction>>
       ELSE /\ character' = Dataset[CurrentStory].character
            /\ backstory' = Dataset[CurrentStory].backstory
            /\ novel' = Dataset[CurrentStory].novel
            /\ extraction' \in
                  IF cfg.skip THEN {ExtractionFails}
                  ELSE {ExtractionFails, ExtractionReturns(<<MNoText(1)>>),
                        ExtractionReturns(<<MStrictFather(Dataset[CurrentStory].character, 1)>>)}
            /\ result' = NoResult
            /\ pc' = "decompose"
    /\ claims' = <<>>
    /\ i' = 1
    /\ evidence' = NoEvidence
    /\ claim_verifications' = <<>>
    /\ UNCHANGED <<cfg, chunks, character_positions, cache, ingester_vars, story_ids,
                   results, entry, index_vars, attempts>>

\* a row that leaves the confidence out
RowWithoutConfidence(e, sid, r) ==
    [keys |-> {"story_id", "prediction", "rationale"},
     story_id |-> sid, prediction |-> r.prediction, rationale |-> r.rationale]

\* what the loop appends for a story: batch_process appends the dict of
\* process_example, or its own error dict (lines 253, 256-263);
\* generate_submission appends Story ID, Prediction and Rationale
\* (lines 283-287), or its error row (lines 291-295)
ResultRow(e, sid, r) ==
    IF e = "batch_process"
    THEN [keys |-> {"story_id", "prediction", "confidence", "rationale"},
          story_id |-> sid, prediction |-> r.prediction, confidence |-> r.confidence,
          over |-> r.over, rationale |-> r.rationale]
    ELSE IF r.rationale = "processing_error"
    THEN [keys |-> {"story_id", "prediction", "rationale"},
          story_id |-> sid, prediction |-> 0, rationale |-> "error_during_processing"]
    ELSE [keys |-> {"story_id", "prediction", "rationale"},
          story_id |-> sid, prediction |-> r.prediction, rationale |-> r.rationale]

\* process_example has returned or raised: the loop appends and goes on
CollectResult ==
    /\ pc = "done"
    /\ results' = Append(results, ResultRow(entry, CurrentStory, result))
    /\ pc' = IF Len(results) + 1 < Len(story_ids) THEN "next" ELSE "finished"
    /\ UNCHANGED <<cfg, character, backstory, novel, extraction, claims, chunks,
                   character_positions, i, evidence, claim_verifications, cache, result,
                   ingester_vars, story_ids, entry, index_vars, attempts>>

InitBatch ==
    /\ entry \in {"batch_process", "generate_submission"}
    \* generate_submission takes its ids from the rows of the test set
    /\ story_ids \in UNION {[1..n -> IF entry = "batch_process" THEN StoryIds
                                      ELSE DOMAIN Dataset] : n \in 0..MaxStories}
    /\ results = <<>>
    /\ pc = IF story_ids = <<>> THEN "finished" ELSE "next"
    /\ cfg \in {c \in Configs : c.skip \/ c.local}
    /\ character = <<"John">>
    /\ backstory = <<>>
    /\ novel = [found |-> TRUE, chunks |-> <<>>]
    /\ extraction = ExtractionFails
    /\ raw_text = <<>>
    /\ ingests = <<>>
    /\ ingesters = NoIngesters
    /\ builds = <<>>
    /\ attempts = <<>>
    /\ claims = <<>>
    /\ chunks = <<>>
    /\ character_positions = NoPositions
    /\ i = 1
    /\ evidence = NoEvidence
    /\ claim_verifications = <<>>
    /\ cache = {}
    /\ result = NoResult

NextBatch ==
    \/ StartStory
    \/ DecomposeStep
    \/ IngestStep
    \/ RetrieveStep
    \/ VerifyStep
    \/ AggregateStep
    \/ CollectResult

SpecBatch == InitBatch /\ [][NextBatch]_vars

\* one result per story processed so far, in the order of the ids
OnePerStory ==
    /\ Len(results) <= Len(story_ids)
    /\ \A k \in 1..Len(results) : results[k].story_id = story_ids[k]
    /\ pc = "finished" => Len(results) = Len(story_ids)

\* C13 (as stated): batch_process and generate_submission yield one result
\* per story, in input order, whichever stories raise, and every result has
\* a prediction, a confidence and a rationale.
C13_ErrorIsolation ==
    /\ OnePerStory
    /\ \A k \in 1..Len(results) :
          {"prediction", "confidence", "rationale"} \subseteq results[k].keys

\* C13 (amended): both loops yield one result per story, in input order,
\* whichever stories raise; a result of batch_process has a prediction, a
\* confidence and a rationale, and the result of a story that raised is
\* prediction 0, confidence 0.0; a row of generate_submission has a
\* prediction and a rationale and no confidence, and the row of a story that
\* raised is prediction 0, 'Error during processing'.
C13_OneResultPerStory ==
    /\ OnePerStory
    /\ \A k \in 1..Len(results) :
          /\ results[k].prediction \in {0, 1}
          /\ IF entry = "batch_process"
             THEN /\ results[k].keys = {"story_id", "prediction", "confidence", "rationale"}
                  /\ results[k].rationale = "processing_error" =>
                        results[k].prediction = 0 /\ results[k].confidence = 0
             ELSE /\ results[k].keys = {"story_id", "prediction", "rationale"}
                  /\ results[k].rationale # "processing_error"
          /\ story_ids[k] \notin DOMAIN Dataset => results[k].prediction = 0
          /\ (story_ids[k] \in DOMAIN Dataset /\ ~Dataset[story_ids[k]].novel.found) =>
                /\ results[k].prediction = 0
                /\ results[k].rationale \in
                      {"processing_error", "error_during_processing",
                       "claim_decomposition_error", "failed_to_generate_claims"}

\* batch_process over two stories: the first has no row and raises, the
\* second is still processed and verified consistent
C13_Witness ==
    /\ pc = "finished"
    /\ entry = "batch_process"
    /\ story_ids = <<4, 1>>
    /\ results[1].rationale = "processing_error"
    /\ results[2].prediction = 1
    /\ results[2].rationale # "processing_error"

\* no book was ingested twice
BuiltOnce == \A a, b \in 1..Len(builds) : builds[a] = builds[b] => a = b

\* the claims of the backstory in hand are retrieved from the index cached
\* for its book
IndexInUse ==
    pc \in {"retrieve", "verify", "aggregate"} =>
        /\ IsCached(ingesters, novel)
        /\ chunks = ingesters[novel].chunks
        /\ character_positions = ingesters[novel].character_positions

\* a step leaves every cached index as it is, and a step of retrieval or of
\* verification leaves the chunks and the reverse index of the ingester as
\* they are
IndexReadOnly ==
    /\ \A b \in DOMAIN ingesters : b \in DOMAIN ingesters' /\ ingesters'[b] = ingesters[b]
    /\ pc \in {"retrieve", "verify"} =>
          chunks' = chunks /\ character_positions' = character_positions

\* C27: over any sequence of process_example calls on one pipeline a book
\* is ingested at most once, every backstory of the book is retrieved from
\* the index built then, and neither retrieval nor any later step changes
\* the chunks or the character positions of an index once built.
C27_IndexBuiltOnce == [](BuiltOnce /\ IndexInUse) /\ [][IndexReadOnly]_vars

\* two backstories of one book, both verified, the book ingested once
C27_Witness ==
    /\ pc = "finished"
    /\ story_ids = <<1, 5>>
    /\ Len(builds) = 1
    /\ DOMAIN ingesters = {Dataset[1].novel}
    /\ \A k \in 1..2 :
          results[k].rationale \notin {"processing_error", "error_during_processing",
                                       "claim_decomposition_error",
                                       "failed_to_generate_claims"}

-----------------------------------------------------------------------------
(* The model calls of one request and their retries (SpecRetry): the loop  *)
(* of ClaimDecomposer._extract_claims_with_llm on the remote providers and *)
(* the loop of GeminiAPIWrapper.generate_json, one step for each attempt.  *)
(* attempts holds, for each call made, what it came to and the seconds     *)
(* slept after it.                                                         *)

\* claim_decomposer.py:165  max_retries = 1
EXTRACT_MAX_RETRIES == 1

\* llm_api_fixed.py:24  self.max_retries = 3
API_MAX_RETRIES == 3

\* what a model call comes to: a reply that parses, or a failure
CallOutcomes == {"ok", "rate_limit", "timeout", "connection", "bad_json"}

\* the failures that pass: rate limit, timeout, connection failure
TransientFailures == {"rate_limit", "timeout", "connection"}

\* 2 ** attempt
RECURSIVE Pow2(_)
Pow2(n) == IF n = 0 THEN 1 ELSE 2 * Pow2(n - 1)

\* '429' in error_msg or 'quota' in ... or 'rate' in ..., lines 233-236
IsRateLimit(outcome) == outcome = "rate_limit"

\* one pass of the loop of _extract_claims_with_llm, lines 167-243: there
\* is no sleep between two attempts
ExtractAttempt ==
    /\ pc = "extract_call"
    /\ Len(attempts) < EXTRACT_MAX_RETRIES
    /\ \E outcome \in CallOutcomes :
          /\ attempts' = Append(attempts, [outcome |-> outcome, slept |-> 0])
          /\ IF outcome = "ok"
             THEN /\ claims' = extraction.claims
                  /\ pc' = "extract_returned"
             ELSE IF IsRateLimit(outcome) \/ Len(attempts) = EXTRACT_MAX_RETRIES - 1
             THEN /\ claims' = ExtractClaimsSmart(backstory, character)
                  /\ pc' = "extract_fallback"
             ELSE /\ claims' = claims
                  /\ pc' = "extract_call"
    /\ UNCHANGED <<cfg, character, backstory, novel, extraction, chunks,
                   character_positions, i, evidence, claim_verifications, cache, result,
                   ingester_vars, batch_vars, index_vars>>

\* one pass of the loop of generate_json, lines 36-76, and the raise of
\* lines 78-79 after the last; APIClaimDecomposer.decompose lets it through
GenerateJsonAttempt ==
    /\ pc = "api_call"
    /\ Len(attempts) < API_MAX_RETRIES
    /\ \E outcome \in CallOutcomes :
          IF outcome = "ok"
          THEN /\ attempts' = Append(attempts, [outcome |-> outcome, slept |-> 0])
               /\ claims' = APIDecompose(extraction).claims
               /\ pc' = "api_returned"
          ELSE /\ attempts' = Append(attempts, [outcome |-> outcome,
                                                slept |-> Pow2(Len(attempts))])
               /\ claims' = claims
               /\ pc' = IF Len(attempts) + 1 < API_MAX_RETRIES
                        THEN "api_call" ELSE "api_raised"
    /\ UNCHANGED <<cfg, character, backstory, novel, extraction, chunks,
                   character_positions, i, evidence, claim_verifications, cache, result,
                   ingester_vars, batch_vars, index_vars>>

InitRetry ==
    /\ pc \in {"extract_call", "api_call"}
    /\ cfg \in {c \in Configs : ~c.skip /\ ~c.local}
    /\ character \in {<<"John">>, <<"Tom">>}
    /\ backstory \in {Numbered(p, 1, FALSE) : p \in {<<SBrave>>, <<SFather>>}}
    /\ novel = [found |-> TRUE, chunks |-> <<>>]
    /\ extraction \in {ExtractionReturns(<<MFear(character, 1)>>),
                        ExtractionReturns(<<MStrictFather(character, 1),
                                            MHard(character, 2)>>)}
    /\ Fresh

NextRetry ==
    \/ ExtractAttempt
    \/ GenerateJsonAttempt

SpecRetry == InitRetry /\ [][NextRetry]_vars

\* the request is over
RequestOver == pc \in {"extract_returned", "extract_fallback", "api_returned", "api_raised"}

\* the attempt cap of the stage the request belongs to
AttemptCap ==
    IF pc \in {"extract_call", "extract_returned", "extract_fallback"}
    THEN EXTRACT_MAX_RETRIES ELSE API_MAX_RETRIES

\* C26: a model call that failed for a passing cause is called again, after
\* a delay that doubles with each attempt, until the attempt cap; the stage
\* degrades to its heuristic fallback only when the cap is used up, and does
\* not raise; a request makes no more model calls than the cap.
C26_BoundedRetryBackoff ==
    /\ Len(attempts) <= AttemptCap
    /\ \A k \in 1..Len(attempts) - 1 :
          attempts[k].outcome # "ok" /\ attempts[k].slept = Pow2(k - 1)
    /\ (RequestOver /\ attempts[1].outcome \in TransientFailures) => Len(attempts) >= 2
    /\ (RequestOver /\ attempts[Len(attempts)].outcome # "ok") =>
          /\ Len(attempts) = AttemptCap
          /\ pc = "extract_fallback"

-----------------------------------------------------------------------------
(* The verifier and the aggregator (SpecHeuristic): backstories judged     *)
(* without a model, or with a model whose calls may fail, against novels   *)
(* whose passages give the heuristic each of its branches.                 *)

\* claims of a backstory judged by the heuristic
MaxJudged == 2

\* chunks of a novel the heuristic is given
MaxPassages == 4

\* John, twice by name, in a scene of talk: "brave", "fearless", "bold",
\* and yet he "fled"
CBoldFled == RawChunk(2, 0, 0, {"john", "brave", "fearless", "bold", "fled"}, 6, 0)

\* John, twice by name, and nothing else of the claim
CNamed == RawChunk(2, 0, 0, {"john"}, 0, 0)

InitHeuristic ==
    /\ pc = "decompose"
    /\ cfg \in Configs
    /\ character = <<"John">>
    /\ backstory \in {Numbered(p, n, FALSE) :
                        p \in {<<SBrave>>, <<SBrave, SDogs>>, <<SDogs>>}, n \in 1..MaxJudged}
    /\ novel \in {[found |-> TRUE, chunks |-> NumberedChunks(p, n)] :
                    p \in {<<CCoward>>, <<CBoldFled, CNamed>>, <<CBrave>>},
                    n \in 0..MaxPassages}
    /\ extraction = ExtractionFails
    /\ Fresh

SpecHeuristic == InitHeuristic /\ [][Next]_vars

\* the verifications _fallback_verification produced
HeuristicAt == {k \in Verified : claim_verifications[k].via = "fallback"}

\* every verification of the story came from the heuristic
AllHeuristic == HeuristicAt = Verified

\* the verdict is inconsistent by one of the two count-based branches
FromCountComparison ==
    result.rationale \in {"claims_contradicted", "majority_contradicted"}

HeuristicRange ==
    \A k \in HeuristicAt :
        /\ claim_verifications[k].verification.confidence >= 4000
        /\ claim_verifications[k].verification.confidence <= 9000

\* C28 (as stated): every result of _fallback_verification has a confidence
\* in [0.4, 0.9]; so when all verifications of a story come from the
\* heuristic, the single-contradiction override (> 0.9) never fires, and an
\* inconsistent verdict comes only from two or more contradictions at
\* confidence 0.9 or from the count comparison.
C28_HeuristicConfidenceRange ==
    /\ HeuristicRange
    /\ (pc = "done" /\ result.status = "verdict" /\ AllHeuristic) =>
          /\ result.rationale # "strong_contradiction"
          /\ result.prediction = 0 =>
                \/ Cardinality({k \in ContraAt :
                        claim_verifications[k].verification.confidence = 9000}) >= 2
                \/ FromCountComparison

\* C28 (amended): every result of _fallback_verification has a confidence
\* in [0.4, 0.9]; when all verifications of a story come from the heuristic
\* the single-contradiction override never fires, and the verdict is
\* inconsistent exactly when two or more contradictions have a confidence
\* above 0.85 (anywhere in (0.85, 0.9], not only 0.9), or the contradicted
\* claims outnumber the consistent ones, or they tie with one contradiction
\* of confidence above 0.85.
C28_HeuristicStrongRange ==
    /\ HeuristicRange
    /\ (pc = "done" /\ result.status = "verdict" /\ AllHeuristic) =>
          /\ result.rationale # "strong_contradiction"
          /\ \A k \in StrongAt :
                claim_verifications[k].verification.confidence <= 9000
          /\ result.prediction = 0 <=>
                \/ Cardinality(StrongAt) >= 2
                \/ Cardinality(ContraAt) > Cardinality(SupportAt)
                \/ /\ Cardinality(ContraAt) = Cardinality(SupportAt)
                   /\ Cardinality(StrongAt) = 1
          /\ result.rationale = "multiple_strong_contradictions" <=>
                Cardinality(StrongAt) >= 2

\* two claims contradicted by the heuristic with confidence 0.88: the
\* verdict is inconsistent by the multiple-contradiction override
C28_Witness ==
    /\ pc = "done"
    /\ AllHeuristic
    /\ Len(claim_verifications) = 2
    /\ \A k \in Verified :
          /\ claim_verifications[k].verification.consistent = 0
          /\ claim_verifications[k].verification.confidence = 8800
    /\ result.rationale = "multiple_strong_contradictions"
    /\ result.prediction = 0

\* what verify_claim returns in the current state when the model replies llm
JudgedAs(llm) == VerifyClaim(cfg, cache, claims[i], evidence, llm)

\* the judgment as the branch compares it: lower-cased by the remote branch
\* only (lines 103 and 164)
JudgmentRead(llm) == IF cfg.local THEN llm.judgment ELSE Lower(llm.judgment)

\* the same reply with the judgment 'contradicted'
AsContradicted(llm) == [llm EXCEPT !.judgment = "contradicted"]

\* the verifications a model reply of judgment 'uncertain' produced: the
\* only reply of confidence 0.3 a model gives
UncertainAt ==
    {k \in Verified :
        /\ claim_verifications[k].via = "model"
        /\ claim_verifications[k].reply = "json"
        /\ claim_verifications[k].verification.confidence = 3000}

-----------------------------------------------------------------------------
(* The verification cache over the stories of a batch (SpecBatch) *)

\* claim id, number of supporting and number of contradicting passages
Triple(claim, ev) == <<claim.claim_id, Len(ev.supporting), Len(ev.contradicting)>>

\* the triples some verification is stored for
StoredTriples == {<<e.key.claim_id, e.key.ns, e.key.nc>> : e \in cache}

\* one entry for a triple
CacheByTriple ==
    \A e1, e2 \in cache :
        <<e1.key.claim_id, e1.key.ns, e1.key.nc>> = <<e2.key.claim_id, e2.key.ns, e2.key.nc>>
            => e1 = e2

\* verify_claim called in model mode, with evidence, for a stored triple
\* returns the stored verification whatever the model would reply
HitReturnsStored ==
    /\ (/\ pc = "verify"
        /\ ~cfg.skip
        /\ evidence.supporting # <<>> \/ evidence.contradicting # <<>>
        /\ Triple(claims[i], evidence) \in StoredTriples) =>
          \A llm \in LLMOutcomes :
              /\ JudgedAs(llm).via = "cache"
              /\ JudgedAs(llm).reply = "none"
              /\ JudgedAs(llm).verification = CacheGet(cache, CacheKey(claims[i], evidence))
              /\ JudgedAs(llm).cache = cache
    /\ \A k \in Verified :
          claim_verifications[k].via = "cache" =>
              /\ claim_verifications[k].reply = "none"
              /\ claim_verifications[k].verification =
                    CacheGet(cache, CacheKey(claim_verifications[k].claim,
                                             claim_verifications[k].evidence))

\* an entry, once stored, stays as it is
StoredKept == \A e \in cache : e \in cache'

\* C30: in model mode a cache entry is identified by the claim id and the
\* numbers of supporting and of contradicting passages alone; once a
\* verification is stored, every later verify_claim with the same three
\* values and some evidence returns that verification without a model
\* call, whatever the claim text, the character, the novel or the passages.
C30_CacheIdentity ==
    [](CacheByTriple /\ HitReturnsStored) /\ [][StoredKept]_vars

\* the second story of a batch, on another character and another book: its
\* claim is answered with the verification stored for the first story
C30_Witness ==
    /\ Len(story_ids) = 2
    /\ Len(results) = 1
    /\ story_ids[1] \in DOMAIN Dataset
    /\ Dataset[story_ids[1]].character # character
    /\ Dataset[story_ids[1]].novel # novel
    /\ claim_verifications # <<>>
    /\ claim_verifications[1].via = "cache"
    /\ claim_verifications[1].evidence.supporting # <<>>

====
